---------------------------- MODULE Spec2Model ----------------------------
(***************************************************************************)
(* A model of utils/portalocker.py: the platform lockers (PosixLocker,     *)
(* Win32Locker, MsvcrtLocker), the retry generator of LockBase, Lock,      *)
(* RLock and BoundedSemaphore, run by several processes against the files  *)
(* and the lock table of one operating system.                             *)
(*                                                                         *)
(* Every process owns one Lock object (a semaphore process owns the Lock   *)
(* its try_lock created last) and at most one open file handle, the one    *)
(* that Lock opened.  A handle is named by its owner and the serial number *)
(* of the open() call that made it.  Time is a global clock in ticks of    *)
(* 0.0005 s, half the minimum sleep of the retry generator.                *)
(***************************************************************************)
EXTENDS Integers, Sequences, FiniteSets, TLC

(* ------------------------------ bounds ------------------------------- *)
NumProcs == 2
NumSems == 3
MaxCalls == 3
MaxTime == 2
MaxWrites == 1
MaxRCalls == 6
MaxSemCalls == 4
MaxTimeout == 3
MaxInterval == 3
MaxBackendCalls == 4
MaxPos == 2
MaxNtCalls == 3

(* ------------------------- program constants ------------------------- *)
\* times in ticks: 0.001 s, 5 s and 0.25 s
MinSleep == 2
DEFAULT_TIMEOUT == 10000
DEFAULT_CHECK_INTERVAL == 500
Maximum == 2

Procs == 1..NumProcs
Sems == 1..NumSems
Users == 1..(IF NumProcs > NumSems THEN NumProcs ELSE NumSems)

EX == "EXCLUSIVE"
SH == "SHARED"
NB == "NON_BLOCKING"

LOCK_METHOD == {EX, NB}
DEFAULT_FAIL_WHEN_LOCKED == FALSE

None == 0

VARIABLES
  LOCKER,            \* the active backend: "flock", "Win32Locker", "MsvcrtLocker"
  now,               \* time.perf_counter()
  fileData,          \* file name -> bytes on disk (each byte names its writer)
  oslocks,           \* the OS lock table: records [h, file, api, excl]
  hOpen,             \* user -> its handle is open
  hSerial,           \* user -> open() calls its Lock object has made; with
                     \* the Lock object it names the handle
  hBuf,              \* user -> bytes written to the handle and not yet flushed
  hPos,              \* user -> the position of its handle: what tell() returns
  linked,            \* path -> made: the files created under this name
                     \* after the first one; exists: the path names a file
  hFile,             \* user -> which of the files of its name its handle
                     \* refers to (0: the first one)
  slots_full,        \* user -> history: every slot file of the semaphore
                     \* was locked at some instant since its acquire began
  filename, mode, truncate, flags, fail_when_locked, timeout, check_interval,
  fh,                \* Lock.fh: None or the serial of the held handle
  pc,                \* position inside Lock.acquire / Lock.release
  frame,             \* the locals of the running Lock.acquire and its
                     \* _timeout_generator: fail_when_locked, exception, i,
                     \* start_time, the end of the running sleep; and the
                     \* backend calls and sleeps it made so far, and t0,
                     \* the time of the call; of a call of the nt lock()
                     \* or unlock(): pos_ctx, the position _prepare_windows_file
                     \* saved, pos0, the position when the call was made,
                     \* oscalls, the OS calls made with their outcomes, and
                     \* msg, the OS errors the exception raised names
  ret, retval,       \* outcome of the last Lock call and the handle it returned
  acquire_count,     \* RLock._acquire_count
  rpc,               \* position inside RLock.acquire / RLock.release
  rret,              \* outcome of the last RLock call
  rcall,             \* the RLock method (or backend function) called last
  sem,               \* BoundedSemaphore: timeout, check_interval,
                     \* fail_when_locked and lock (None, or 1: the user's Lock)
  spc,               \* position inside BoundedSemaphore.acquire / release
  sframe,            \* the locals of the running BoundedSemaphore.acquire:
                     \* fail_when_locked, the generator's i and start_time,
                     \* the end of the running sleep, the index of the file
                     \* name try_lock is at; alone: a slot was free when the
                     \* call began and no other acquire has run since;
                     \* sweeps: the try_lock calls made so far
  sret,              \* outcome of the last BoundedSemaphore.acquire
  written,           \* bytes this holder wrote since it acquired
  ncalls,            \* calls made so far (acquire; for an RLock, release too)
  acquires, releases, \* successful RLock.acquire / RLock.release calls
                     \* (of lock() / unlock() where those are called, and
                     \* the release calls of a Lock or BoundedSemaphore)
  released_any       \* some semaphore was released

fileVars == <<fileData, oslocks, hOpen, hSerial, hBuf, hPos, linked, hFile>>
osVars == <<fileVars, slots_full>>
cfgVars == <<LOCKER, filename, mode, truncate, flags, fail_when_locked,
             timeout, check_interval>>
lockVars == <<fh, pc, frame, ret, retval>>
rlockVars == <<acquire_count, rpc, rret, rcall, acquires, releases>>
semVars == <<sem, spc, sframe, sret, released_any>>
ghostVars == <<written, ncalls>>
vars == <<now, osVars, cfgVars, lockVars, rlockVars, semVars, ghostVars>>

\* the locals of a call that is not running
NoFrame == [fwl |-> FALSE, exception |-> "None", i |-> 0, start_time |-> 0,
            wake |-> 0, attempts |-> 0, sleeps |-> 0, t0 |-> 0,
            pos_ctx |-> 0, pos0 |-> 0, oscalls |-> <<>>, msg |-> <<>>]
NoSFrame == [fwl |-> FALSE, i |-> 0, start_time |-> 0, wake |-> 0, k |-> 0,
             alone |-> FALSE, sweeps |-> 0]

(* ------------------------------ files -------------------------------- *)
Digits == <<"0", "1", "2", "3", "4", "5", "6", "7", "8", "9">>

\* '{number:02d}': at least two decimal digits, zero padded
Format02d(n) ==
  IF n < 10 THEN <<"0", Digits[n + 1]>>
  ELSE IF n < 100 THEN <<Digits[(n \div 10) + 1], Digits[(n % 10) + 1]>>
  ELSE <<Digits[(n \div 100) + 1], Digits[((n \div 10) % 10) + 1],
         Digits[(n % 10) + 1]>>

\* pathlib.Path(directory) / '{name}.{number:02d}.lock'
get_filename(number) ==
  <<"tmp", "/", "bounded_semaphore", ".">> \o Format02d(number) \o <<".", "lock">>

\* pathlib.Path(self.directory) / ...: the slot file f of the default
\* directory, in the directory of the semaphore
InDirectory(directory, f) == <<directory>> \o Tail(f)

SomeFile == <<"somefile">>

\* a path in a directory that does not exist
BadFile == <<"missing", "/", "somefile">>

\* open(f, mode) succeeds: in the modes Lock uses ('a', 'w' and their
\* variants) it creates the file, and fails when the directory is missing
Openable(f) == f[1] # "missing"

\* the default filename of a TemporaryFileLock
TempFile == <<".", "lock">>

\* a device file: it can be opened, locked and sought in, not truncated
DevNull == <<"/", "dev", "/", "null">>

\* fh.truncate(0) succeeds on a handle of the file
Truncatable(f) == f # DevNull

\* 'w' in mode: open() with it truncates the file
HasW(m) == \E i \in 1..Len(m) : m[i] = "w"

\* mode.replace('w', 'a')
ReplaceWA(m) == [i \in 1..Len(m) |-> IF m[i] = "w" THEN "a" ELSE m[i]]

(* --------------------------- the OS lock table ----------------------- *)
\* A request of handle h on file f is refused while another handle holds a
\* lock on f that is exclusive, or any lock when the request is exclusive.
\* flock(2) keeps one lock per open file description; LockFileEx / LockFile
\* keep byte ranges, and the two ranges this module uses both start at
\* offset 0 and so overlap.
Conflicts(L, h, f, excl) ==
  \E r \in L : r.file = f /\ r.h # h /\ (excl \/ r.excl)

\* off: the offset where the locked range begins
Rec(h, f, api, excl) ==
  [h |-> h, file |-> f, api |-> api, excl |-> excl, off |-> 0]

\* every file of get_filenames() is locked in the lock table L
AllSlotsLocked(L) ==
  \A n \in 0..(Maximum - 1) : \E r \in L : r.file = get_filename(n)

\* the history of the users that are inside BoundedSemaphore.acquire, when
\* the lock table becomes L
SeenFull(L) ==
  [q \in Users |->
     IF spc[q] \in {"probing", "sleep"}
       THEN slots_full[q] \/ AllSlotsLocked(L)
       ELSE slots_full[q]]

\* fcntl.flock(fd, flags): exactly one of LOCK_SH, LOCK_EX, optionally with
\* LOCK_NB; a second call on the same description converts its lock.
FcntlFlock(L, h, f, fl) ==
  LET op == fl \ {NB} IN
  IF op = {EX} \/ op = {SH} THEN
    IF Conflicts(L, h, f, op = {EX})
      THEN [res |-> IF NB \in fl THEN "EAGAIN" ELSE "block", L |-> L]
      ELSE [res |-> "ok",
            L |-> {r \in L : r.h # h} \cup {Rec(h, f, "flock", op = {EX})}]
  ELSE [res |-> "EINVAL", L |-> L]

\* fcntl.flock(fd, LOCK_UN)
FcntlUnlock(L, h) == {r \in L : r.h # h}

\* win32file.LockFileEx(os_fh, mode, 0, -0x10000, overlapped)
LockFileEx(L, h, f, excl, failImmediately) ==
  IF Conflicts(L, h, f, excl)
    THEN [res |-> IF failImmediately THEN "ERROR_LOCK_VIOLATION" ELSE "block",
          L |-> L]
    ELSE [res |-> "ok", L |-> L \cup {Rec(h, f, "range", excl)}]

\* win32file.UnlockFileEx(os_fh, 0, -0x10000, overlapped): the range must
\* be one this handle locked
UnlockFileEx(L, h) ==
  IF \E r \in L : r.h = h /\ r.api = "range"
    THEN [res |-> "ok", L |-> {r \in L : ~(r.h = h /\ r.api = "range")}]
    ELSE [res |-> "ERROR_NOT_LOCKED", L |-> L]

\* msvcrt.locking(fd, LK_NBLCK | LK_LOCK, 0x10000) with the descriptor at
\* position pos: an exclusive lock of the 0x10000 bytes that begin there;
\* LK_LOCK retries for ten seconds before it gives up
MsvcrtLockingAt(L, h, f, nonBlocking, pos) ==
  IF Conflicts(L, h, f, TRUE)
    THEN [res |-> IF nonBlocking THEN "EACCES" ELSE "block", L |-> L]
    ELSE [res |-> "ok",
          L |-> L \cup {[Rec(h, f, "legacy", TRUE) EXCEPT !.off = pos]}]

\* msvcrt.locking(fd, LK_UNLCK, 0x10000) with the descriptor at position
\* pos: the range must be one this handle locked
MsvcrtUnlockingAt(L, h, pos) ==
  IF \E r \in L : r.h = h /\ r.api = "legacy" /\ r.off = pos
    THEN [res |-> "ok",
          L |-> {r \in L : ~(r.h = h /\ r.api = "legacy" /\ r.off = pos)}]
    ELSE [res |-> "EACCES", L |-> L]

\* the same calls on an IO object, which _prepare_windows_file has put at
\* position 0
MsvcrtLocking(L, h, f, nonBlocking) == MsvcrtLockingAt(L, h, f, nonBlocking, 0)

MsvcrtUnlocking(L, h) == MsvcrtUnlockingAt(L, h, 0)

(* ------------------------------ backends ----------------------------- *)
\* Results: "ok", "block" (the call has not returned), "AlreadyLocked",
\* "LockException" (a LockException that is not AlreadyLocked) and
\* "Exception" (an error outside the taxonomy).

\* a PosixLocker.lock that grants every request
PosixIgnoresHolders(L, h, f, fl) ==
  [res |-> "ok", L |-> {r \in L : r.h # h} \cup {Rec(h, f, "flock", EX \in fl)}]

\* a PosixLocker.lock that passes every flag combination to flock
PosixNoFlagCheck(L, h, f, fl) ==
  LET r == FcntlFlock(L, h, f, fl) IN
  [res |-> CASE r.res = "EAGAIN" -> "AlreadyLocked"
             [] r.res = "EINVAL" -> "LockException"
             [] OTHER -> r.res,
   L |-> r.L]

\* PosixLocker.lock: flock(LOCK_NB) without LOCK_SH or LOCK_EX is a usage
\* error; EAGAIN is AlreadyLocked, any other OSError a LockException
PosixLocker_lock(L, h, f, fl) ==
  IF NB \in fl /\ fl \cap {SH, EX} = {}
    THEN [res |-> "Exception", L |-> L]
    ELSE LET r == FcntlFlock(L, h, f, fl) IN
         [res |-> CASE r.res = "EAGAIN" -> "AlreadyLocked"
                    [] r.res = "EINVAL" -> "LockException"
                    [] OTHER -> r.res,
          L |-> r.L]

PosixLocker_unlock(L, h) == [res |-> "ok", L |-> FcntlUnlock(L, h)]

\* Win32Locker.lock, given the outcome r of LockFileEx: a pywintypes.error
\* with ERROR_LOCK_VIOLATION is raised as AlreadyLocked, any other one is
\* raised again as it is, an error outside the taxonomy
Win32LockResult(r) ==
  [res |-> CASE r.res \in {"ok", "block"} -> r.res
             [] r.res = "ERROR_LOCK_VIOLATION" -> "AlreadyLocked"
             [] OTHER -> "Exception",
   L |-> r.L]

Win32Locker_lock(L, h, f, fl) ==
  Win32LockResult(LockFileEx(L, h, f, EX \in fl, NB \in fl))

\* Win32Locker.unlock, given the outcome r of UnlockFileEx: a
\* pywintypes.error with ERROR_NOT_LOCKED is ignored, any other one and
\* any OSError is raised as LockException
Win32UnlockResult(r) ==
  [res |-> IF r.res \in {"ok", "ERROR_NOT_LOCKED"} THEN "ok"
           ELSE "LockException",
   L |-> r.L]

Win32Locker_unlock(L, h) == Win32UnlockResult(UnlockFileEx(L, h))

\* a MsvcrtLocker.lock that takes the legacy exclusive lock for SHARED too
MsvcrtSharedAsExclusive(L, h, f, fl) ==
  LET r == MsvcrtLocking(L, h, f, NB \in fl) IN
  [res |-> IF r.res = "EACCES" THEN "AlreadyLocked" ELSE r.res, L |-> r.L]

\* MsvcrtLocker.lock, given the outcome r of msvcrt.locking: an OSError
\* with errno 13, 16, 33 or 36 is raised as AlreadyLocked, any other one as
\* LockException
MsvcrtLockResult(r) ==
  [res |-> CASE r.res \in {"ok", "block"} -> r.res
             [] r.res \in {"EACCES", "EBUSY", "EDOM", "EDEADLOCK"}
                  -> "AlreadyLocked"
             [] OTHER -> "LockException",
   L |-> r.L]

MsvcrtLocker_lock(L, h, f, fl) ==
  IF SH \in fl
    THEN Win32Locker_lock(L, h, f, fl \cap {NB})
    ELSE MsvcrtLockResult(MsvcrtLocking(L, h, f, NB \in fl))

\* a MsvcrtLocker.unlock without the fallback to Win32Locker
MsvcrtUnlockNoFallback(L, h) ==
  LET r == MsvcrtUnlocking(L, h) IN
  [res |-> IF r.res = "EACCES" THEN "LockException" ELSE "ok", L |-> r.L]

\* a fallback taken after every error of the legacy unlock
FallbackOnAnyError(r) == r.res # "ok"

\* if exc.errno == 13: the legacy unlock failed with permission denied
TakesFallback(r) == r.res = "EACCES"

\* MsvcrtLocker.unlock, given the outcome r of msvcrt.locking(LK_UNLCK)
\* and the result w of the Win32Locker.unlock it falls back to: the
\* fallback decides when it is taken (its LockException is raised as one
\* LockException that names both errors); any other OSError of the
\* legacy call is a LockException
MsvcrtUnlockResult(r, w) ==
  IF r.res = "ok" THEN [res |-> "ok", L |-> r.L]
  ELSE IF TakesFallback(r)
    THEN [res |-> IF w.res = "ok" THEN "ok" ELSE "LockException", L |-> w.L]
    ELSE [res |-> "LockException", L |-> r.L]

\* MsvcrtLocker.unlock: LK_UNLCK, and on errno 13 the Win32Locker unlock
MsvcrtLocker_unlock(L, h) ==
  LET r == MsvcrtUnlocking(L, h) IN
  MsvcrtUnlockResult(r, Win32Locker_unlock(r.L, h))

\* lock(file, flags): the module-level function, through LOCKER
lock(L, h, f, fl) ==
  CASE LOCKER = "flock" -> PosixLocker_lock(L, h, f, fl)
    [] LOCKER = "Win32Locker" -> Win32Locker_lock(L, h, f, fl)
    [] LOCKER = "MsvcrtLocker" -> MsvcrtLocker_lock(L, h, f, fl)

\* unlock(file)
unlock(L, h) ==
  CASE LOCKER = "flock" -> PosixLocker_unlock(L, h)
    [] LOCKER = "Win32Locker" -> Win32Locker_unlock(L, h)
    [] LOCKER = "MsvcrtLocker" -> MsvcrtLocker_unlock(L, h)

\* the handle of user p holds a lock on its file
HoldsOSLock(p) == \E r \in oslocks : r.h = p
HoldsExclusive(p) == \E r \in oslocks : r.h = p /\ r.excl
HoldsShared(p) == \E r \in oslocks : r.h = p /\ ~r.excl


(* ----------------------------- Lock.__init__ ------------------------- *)
\* coalesce(arg, default) for an optional boolean argument
coalesce(arg, default) == IF arg = "None" THEN default ELSE arg = "True"

\* a Lock.__init__ that opens the file with the mode it was given
InitModeKeepsW(m) == m

\* Lock.__init__: a mode with 'w' is opened as 'a' and truncated later
InitMode(m) == IF HasW(m) THEN ReplaceWA(m) ELSE m
InitTruncate(m) == HasW(m)

(* ------------------------- handles and files ------------------------- *)
\* the mode appends: every write goes to the end of the file
Appends(m) == \E i \in 1..Len(m) : m[i] = "a"

\* the file that is number g of those created under the name f
Inode(f, g) == IF g = 0 THEN f ELSE f \o <<"(", Digits[g + 1], ")">>

\* the file the handle of user p refers to
FileOf(p) == Inode(filename[p], hFile[p])

\* open(f, mode) in a mode that creates: the names after the call
Created(f) ==
  IF linked[f].exists THEN linked
  ELSE [linked EXCEPT ![f] = [made |-> @.made + 1, exists |-> TRUE]]

\* the handle of user p refers to the file its name still names
OnDisk(p) ==
  linked[filename[p]].exists /\ linked[filename[p]].made = hFile[p]

\* open(filename, mode): a new handle; a mode with 'w' truncates the file,
\* a mode with 'a' starts at the end of the file, any other at 0
OpenOS(p, f, m) ==
  /\ hOpen' = [hOpen EXCEPT ![p] = TRUE]
  /\ hSerial' = [hSerial EXCEPT ![p] = @ + 1]
  /\ linked' = Created(f)
  /\ hFile' = [hFile EXCEPT ![p] = linked'[f].made]
  /\ hBuf' = [hBuf EXCEPT ![p] = <<>>]
  /\ fileData' = IF HasW(m) THEN [fileData EXCEPT ![f] = <<>>] ELSE fileData
  /\ hPos' = [hPos EXCEPT ![p] = IF Appends(m) THEN Len(fileData'[f]) ELSE 0]
  /\ UNCHANGED <<oslocks, slots_full>>

\* fh.close(): flushes the buffer (append mode writes at the end of the
\* file) and drops every lock the handle holds; L is the lock table before
CloseOS(p, L) ==
  /\ oslocks' = {r \in L : r.h # p}
  /\ slots_full' = SeenFull({r \in L : r.h # p})
  /\ hOpen' = [hOpen EXCEPT ![p] = FALSE]
  /\ fileData' = IF OnDisk(p)
                   THEN [fileData EXCEPT ![filename[p]] = @ \o hBuf[p]]
                   ELSE fileData
  /\ hBuf' = [hBuf EXCEPT ![p] = <<>>]
  /\ hPos' = [hPos EXCEPT ![p] = 0]
  /\ UNCHANGED <<hSerial, hFile, linked>>

(* ----------------------------- Lock.acquire -------------------------- *)
\* the running call of user p returns or raises: its locals are gone
Return(p, outcome) ==
  /\ ret' = [ret EXCEPT ![p] = outcome]
  /\ pc' = [pc EXCEPT ![p] = "idle"]
  /\ frame' = [frame EXCEPT ![p] = NoFrame]

\* an acquire that opens and locks again although fh is set
AcquireReopens(p, f, m, fw) ==
  /\ UNCHANGED <<written, now>>
  /\ OpenOS(p, f, m)
  /\ pc' = [pc EXCEPT ![p] = "try"]
  /\ frame' = [frame EXCEPT ![p] = [NoFrame EXCEPT !.fwl = fw, !.t0 = now]]
  /\ ret' = [ret EXCEPT ![p] = "none"]
  /\ retval' = [retval EXCEPT ![p] = None]
  /\ UNCHANGED fh

\* Lock.acquire up to the first yield of the retry generator, on a Lock
\* with filename f and mode m, fail_when_locked resolved to fw; the
\* OSError of an open() that fails in _get_fh leaves acquire as it is
AcquireEnter(p, f, m, fw) ==
  /\ UNCHANGED <<written, now>>
  /\ IF fh[p] # None
       THEN /\ ret' = [ret EXCEPT ![p] = "ok"]
            /\ retval' = [retval EXCEPT ![p] = fh[p]]
            /\ UNCHANGED <<osVars, fh, pc, frame>>
       ELSE IF ~Openable(f)
       THEN /\ ret' = [ret EXCEPT ![p] = "OSError"]
            /\ retval' = [retval EXCEPT ![p] = None]
            /\ UNCHANGED <<osVars, fh, pc, frame>>
       ELSE /\ OpenOS(p, f, m)
            /\ pc' = [pc EXCEPT ![p] = "try"]
            /\ frame' = [frame EXCEPT ![p] = [NoFrame EXCEPT !.fwl = fw,
                                                              !.t0 = now]]
            /\ ret' = [ret EXCEPT ![p] = "none"]
            /\ retval' = [retval EXCEPT ![p] = None]
            /\ UNCHANGED fh

\* the calls made so far by the users 1..n
RECURSIVE CallsMade(_)
CallsMade(n) == IF n = 0 THEN 0 ELSE ncalls[n] + CallsMade(n - 1)

\* the call: lock.acquire(fail_when_locked=arg)
Lock_acquire(p) ==
  /\ pc[p] = "idle"
  /\ CallsMade(NumProcs) < MaxCalls
  /\ ncalls' = [ncalls EXCEPT ![p] = @ + 1]
  /\ \E arg \in {"None", "True", "False"} :
       AcquireEnter(p, filename[p], mode[p],
                    coalesce(arg, fail_when_locked[p]))
  /\ UNCHANGED <<cfgVars, rlockVars, semVars>>

\* an acquire that retries after a refusal although fail_when_locked
AfterLockIgnoresFailFast(p, r, n) ==
  CASE r.res = "ok" ->
         /\ oslocks' = r.L
         /\ slots_full' = SeenFull(r.L)
         /\ pc' = [pc EXCEPT ![p] = "prepare"]
         /\ frame' = [frame EXCEPT ![p].exception = "None",
                                   ![p].attempts = n]
         /\ UNCHANGED <<fileData, hOpen, hSerial, hFile, linked, hBuf, hPos, ret>>
    [] r.res = "block" ->
         /\ pc' = [pc EXCEPT ![p] = "blocked"]
         /\ frame' = [frame EXCEPT ![p].exception = "None",
                                   ![p].attempts = n]
         /\ UNCHANGED <<osVars, ret>>
    [] r.res \in {"AlreadyLocked", "LockException"} ->
         /\ pc' = [pc EXCEPT ![p] = "gen"]
         /\ frame' = [frame EXCEPT ![p].exception = r.res,
                                   ![p].attempts = n]
         /\ UNCHANGED <<osVars, ret>>
    [] r.res = "Exception" ->
         /\ CloseOS(p, r.L)
         /\ Return(p, "LockException")

\* an acquire that goes on to the next index after a successful lock call
AfterLockKeepsTrying(p, r, n) ==
  CASE r.res = "ok" ->
         /\ oslocks' = r.L
         /\ slots_full' = SeenFull(r.L)
         /\ pc' = [pc EXCEPT ![p] = "gen"]
         /\ frame' = [frame EXCEPT ![p].exception = "AlreadyLocked",
                                   ![p].attempts = n]
         /\ UNCHANGED <<fileData, hOpen, hSerial, hFile, linked, hBuf, hPos, ret>>
    [] r.res = "block" ->
         /\ pc' = [pc EXCEPT ![p] = "blocked"]
         /\ frame' = [frame EXCEPT ![p].exception = "None",
                                   ![p].attempts = n]
         /\ UNCHANGED <<osVars, ret>>
    [] r.res \in {"AlreadyLocked", "LockException"} ->
         IF frame[p].fwl
           THEN /\ CloseOS(p, r.L)
                /\ Return(p, "AlreadyLocked")
           ELSE /\ pc' = [pc EXCEPT ![p] = "gen"]
                /\ frame' = [frame EXCEPT ![p].exception = r.res,
                                          ![p].attempts = n]
                /\ UNCHANGED <<osVars, ret>>
    [] r.res = "Exception" ->
         /\ CloseOS(p, r.L)
         /\ Return(p, "LockException")

\* an acquire that raises on fail_when_locked without closing its handle
AfterLockLeavesOpen(p, r, n) ==
  CASE r.res = "ok" ->
         /\ oslocks' = r.L
         /\ slots_full' = SeenFull(r.L)
         /\ pc' = [pc EXCEPT ![p] = "prepare"]
         /\ frame' = [frame EXCEPT ![p].exception = "None",
                                   ![p].attempts = n]
         /\ UNCHANGED <<fileData, hOpen, hSerial, hFile, linked, hBuf, hPos, ret>>
    [] r.res = "block" ->
         /\ pc' = [pc EXCEPT ![p] = "blocked"]
         /\ frame' = [frame EXCEPT ![p].exception = "None",
                                   ![p].attempts = n]
         /\ UNCHANGED <<osVars, ret>>
    [] r.res \in {"AlreadyLocked", "LockException"} ->
         IF frame[p].fwl
           THEN /\ UNCHANGED osVars
                /\ Return(p, "AlreadyLocked")
           ELSE /\ pc' = [pc EXCEPT ![p] = "gen"]
                /\ frame' = [frame EXCEPT ![p].exception = r.res,
                                          ![p].attempts = n]
                /\ UNCHANGED <<osVars, ret>>
    [] r.res = "Exception" ->
         /\ CloseOS(p, r.L)
         /\ Return(p, "LockException")

\* What acquire does with the result r of one _get_lock call, the
\* attempt counted in n:
\*   ok                     -> break, on to _prepare_fh
\*   block                  -> the backend call has not returned
\*   a LockException        -> remembered; raised as AlreadyLocked at once
\*                             when fail_when_locked, else the next index
\*   any other Exception    -> try_close, raise LockException
AfterLock(p, r, n) ==
  CASE r.res = "ok" ->
         /\ oslocks' = r.L
         /\ slots_full' = SeenFull(r.L)
         /\ pc' = [pc EXCEPT ![p] = "prepare"]
         /\ frame' = [frame EXCEPT ![p].exception = "None",
                                   ![p].attempts = n]
         /\ UNCHANGED <<fileData, hOpen, hSerial, hFile, linked, hBuf, hPos, ret>>
    [] r.res = "block" ->
         /\ pc' = [pc EXCEPT ![p] = "blocked"]
         /\ frame' = [frame EXCEPT ![p].exception = "None",
                                   ![p].attempts = n]
         /\ UNCHANGED <<osVars, ret>>
    [] r.res \in {"AlreadyLocked", "LockException"} ->
         IF frame[p].fwl
           THEN /\ CloseOS(p, r.L)
                /\ Return(p, "AlreadyLocked")
           ELSE /\ pc' = [pc EXCEPT ![p] = "gen"]
                /\ frame' = [frame EXCEPT ![p].exception = r.res,
                                          ![p].attempts = n]
                /\ UNCHANGED <<osVars, ret>>
    [] r.res = "Exception" ->
         /\ CloseOS(p, r.L)
         /\ Return(p, "LockException")

\* one iteration of the for loop: fh = self._get_lock(fh)
Lock_try(p) ==
  /\ pc[p] = "try"
  /\ AfterLock(p, lock(oslocks, p, FileOf(p), flags[p]),
               frame[p].attempts + 1)
  /\ UNCHANGED <<now, cfgVars, fh, retval, rlockVars, semVars, ghostVars>>

\* a blocking backend call returns: with the lock once it is free, or, for
\* msvcrt.locking(LK_LOCK), with errno 36 after ten seconds of retries
Lock_blocked(p) ==
  /\ pc[p] = "blocked"
  /\ LET r == lock(oslocks, p, FileOf(p), flags[p]) IN
       \/ /\ r.res = "ok"
          /\ AfterLock(p, r, frame[p].attempts)
       \/ /\ r.res = "block"
          /\ LOCKER = "MsvcrtLocker"
          /\ SH \notin flags[p]
          /\ AfterLock(p, [res |-> "AlreadyLocked", L |-> oslocks],
                       frame[p].attempts)
  /\ UNCHANGED <<now, cfgVars, fh, retval, rlockVars, semVars, ghostVars>>

\* a generator that still yields at the deadline itself
GenNextAtDeadline(p, start) ==
  IF start + timeout[p] >= now
    THEN /\ frame' = [frame EXCEPT ![p].i = @ + 1, ![p].start_time = start]
         /\ pc' = [pc EXCEPT ![p] = "try"]
         /\ UNCHANGED <<osVars, ret>>
    ELSE /\ CloseOS(p, oslocks)
         /\ Return(p, frame[p].exception)

\* a generator whose exhaustion raises without closing the handle
GenNextLeavesOpen(p, start) ==
  IF start + timeout[p] > now
    THEN /\ frame' = [frame EXCEPT ![p].i = @ + 1, ![p].start_time = start]
         /\ pc' = [pc EXCEPT ![p] = "try"]
         /\ UNCHANGED <<osVars, ret>>
    ELSE /\ UNCHANGED osVars
         /\ Return(p, frame[p].exception)

\* while start_time + f_timeout > time.perf_counter(): i += 1; yield i
\* and, once the sequence is exhausted: try_close(); raise exception
GenNext(p, start) ==
  IF start + timeout[p] > now
    THEN /\ frame' = [frame EXCEPT ![p].i = @ + 1, ![p].start_time = start]
         /\ pc' = [pc EXCEPT ![p] = "try"]
         /\ UNCHANGED <<osVars, ret>>
    ELSE /\ CloseOS(p, oslocks)
         /\ Return(p, frame[p].exception)

\* a sleep that is not shortened by the time already spent
SleepTimeFromNow(i, ci, since) ==
  IF i * ci > MinSleep THEN i * ci ELSE MinSleep

\* max(0.001, (i * f_check_interval) - since_start_time)
SleepTime(i, ci, since) ==
  IF i * ci - since > MinSleep THEN i * ci - since ELSE MinSleep

\* the generator is resumed after a failed attempt: after index 0 it takes
\* start_time and tests the deadline; after index i >= 1 it sleeps first
Lock_gen(p) ==
  /\ pc[p] = "gen"
  /\ IF frame[p].i = 0
       THEN GenNext(p, now)
       ELSE /\ frame' = [frame EXCEPT
                 ![p].wake = now + SleepTime(frame[p].i, check_interval[p],
                                             now - frame[p].start_time),
                 ![p].sleeps = @ + 1]
            /\ pc' = [pc EXCEPT ![p] = "sleep"]
            /\ UNCHANGED <<osVars, ret>>
  /\ UNCHANGED <<now, cfgVars, fh, retval, rlockVars, semVars, ghostVars>>

\* time.sleep returns
Lock_sleep(p) ==
  /\ pc[p] = "sleep"
  /\ now >= frame[p].wake
  /\ GenNext(p, frame[p].start_time)
  /\ UNCHANGED <<now, cfgVars, fh, retval, rlockVars, semVars, ghostVars>>

\* _prepare_fh: seek(0) and truncate(0) when truncate; then self.fh = fh.
\* The OSError of a truncate(0) that fails leaves acquire from outside
\* every try: nothing closes the handle and self.fh is not set
Lock_prepare(p) ==
  /\ pc[p] = "prepare"
  /\ IF truncate[p] /\ ~Truncatable(filename[p])
       THEN /\ Return(p, "OSError")
            /\ UNCHANGED <<fileData, fh, retval, written>>
       ELSE /\ fileData' = IF truncate[p] /\ OnDisk(p)
                             THEN [fileData EXCEPT ![filename[p]] = <<>>]
                             ELSE fileData
            /\ fh' = [fh EXCEPT ![p] = hSerial[p]]
            /\ retval' = [retval EXCEPT ![p] = hSerial[p]]
            /\ Return(p, "ok")
            /\ written' = [written EXCEPT ![p] = <<>>]
  /\ hPos' = IF truncate[p] THEN [hPos EXCEPT ![p] = 0] ELSE hPos
  /\ UNCHANGED <<now, oslocks, slots_full, hOpen, hSerial, hFile, linked, hBuf, cfgVars, rlockVars,
                 semVars, ncalls>>

(* ----------------------------- Lock.release -------------------------- *)
\* a release that unlocks whether or not fh is set
ReleaseEnterUnchecked(p) ==
  /\ oslocks' = unlock(oslocks, p).L
  /\ slots_full' = SeenFull(unlock(oslocks, p).L)
  /\ pc' = [pc EXCEPT ![p] = "closing"]
  /\ UNCHANGED <<fileData, hOpen, hSerial, hFile, linked, hBuf, hPos>>

\* if self.fh: unlock(self.fh) ...
ReleaseEnter(p) ==
  IF fh[p] # None
    THEN /\ oslocks' = unlock(oslocks, p).L
         /\ slots_full' = SeenFull(unlock(oslocks, p).L)
         /\ pc' = [pc EXCEPT ![p] = "closing"]
         /\ UNCHANGED <<fileData, hOpen, hSerial, hFile, linked, hBuf, hPos>>
    ELSE UNCHANGED <<osVars, pc>>

Lock_release(p) ==
  /\ pc[p] = "idle"
  /\ ReleaseEnter(p)
  /\ UNCHANGED <<now, cfgVars, fh, frame, ret, retval, rlockVars, semVars,
                 ghostVars>>

\* ... self.fh.close(); self.fh = None
ReleaseClose(p) ==
  /\ CloseOS(p, oslocks)
  /\ fh' = [fh EXCEPT ![p] = None]
  /\ pc' = [pc EXCEPT ![p] = "idle"]

Lock_release_close(p) ==
  /\ pc[p] = "closing"
  /\ ReleaseClose(p)
  /\ UNCHANGED <<now, cfgVars, frame, ret, retval, rlockVars, semVars,
                 ghostVars>>

(* ------------------------- the holder's writes ----------------------- *)
\* fh.write(...): into the handle's buffer
Write(p) ==
  /\ pc[p] = "idle"
  /\ fh[p] # None
  /\ Len(written[p]) < MaxWrites
  /\ hBuf' = [hBuf EXCEPT ![p] = Append(@, p)]
  /\ hPos' = [hPos EXCEPT ![p] = @ + 1]
  /\ written' = [written EXCEPT ![p] = Append(@, p)]
  /\ UNCHANGED <<now, fileData, oslocks, slots_full, hOpen, hSerial, hFile, linked, cfgVars, lockVars,
                 rlockVars, semVars, ncalls>>

\* fh.flush(), or the buffer filling up: the bytes reach the end of the file
Flush(p) ==
  /\ pc[p] = "idle"
  /\ fh[p] # None
  /\ hBuf[p] # <<>>
  /\ fileData' = IF OnDisk(p)
                   THEN [fileData EXCEPT ![filename[p]] = @ \o hBuf[p]]
                   ELSE fileData
  /\ hBuf' = [hBuf EXCEPT ![p] = <<>>]
  /\ hPos' = [hPos EXCEPT ![p] = Len(fileData'[filename[p]])]
  /\ UNCHANGED <<now, oslocks, slots_full, hOpen, hSerial, hFile, linked, cfgVars, lockVars, rlockVars,
                 semVars, ghostVars>>

\* a running Lock.acquire of user p will read the clock again: its retry
\* generator is resumed only after a failure that does not end the call
ReadsClock(p) ==
  /\ pc[p] \in {"try", "blocked", "gen", "sleep"}
  /\ ~frame[p].fwl
  /\ timeout[p] > 0

\* a running BoundedSemaphore.acquire of user p will read the clock again
SemReadsClock(p) == spc[p] \in {"probing", "sleep"} /\ sem[p].timeout > 0

\* time passes (time that no running call reads is not counted)
Tick ==
  /\ now < MaxTime
  /\ \E p \in Users : ReadsClock(p) \/ SemReadsClock(p)
  /\ now' = now + 1
  /\ UNCHANGED <<osVars, cfgVars, lockVars, rlockVars, semVars, ghostVars>>

\* a BoundedSemaphore that is not in use
NoSem == [timeout |-> 0, check_interval |-> 1, fail_when_locked |-> TRUE,
          lock |-> None, directory |-> "tmp"]

(* ------------------------------ Init --------------------------------- *)
AllFiles == {SomeFile, DevNull, TempFile} \cup {get_filename(n) : n \in 0..Maximum}

\* the state after the Lock objects of the users in U are constructed:
\* Lock(file, mode, timeout, check_interval, fail_when_locked, flags)
InitOn(U, files, lockers, modes, flagChoices, timeouts, intervals, fwls) ==
  /\ LOCKER \in lockers
  /\ now = 0
  /\ fileData = [f \in AllFiles |-> <<0>>]
  /\ oslocks = {}
  /\ hOpen = [p \in Users |-> FALSE]
  /\ hSerial = [p \in Users |-> 0]
  /\ hBuf = [p \in Users |-> <<>>]
  /\ hPos = [p \in Users |-> 0]
  /\ linked = [f \in AllFiles |-> [made |-> 0, exists |-> TRUE]]
  /\ hFile = [p \in Users |-> 0]
  /\ slots_full = [p \in Users |-> FALSE]
  /\ \E fn \in [U -> files] :
       filename = [p \in Users |-> IF p \in U THEN fn[p] ELSE SomeFile]
  /\ \E m \in [U -> modes] :
       /\ mode = [p \in Users |-> IF p \in U THEN InitMode(m[p]) ELSE <<"a">>]
       /\ truncate = [p \in Users |-> IF p \in U THEN InitTruncate(m[p])
                                      ELSE FALSE]
  /\ \E fl \in [U -> flagChoices] :
       flags = [p \in Users |-> IF p \in U THEN fl[p] ELSE LOCK_METHOD]
  /\ \E fw \in [U -> fwls] :
       fail_when_locked = [p \in Users |-> IF p \in U THEN fw[p]
                                           ELSE DEFAULT_FAIL_WHEN_LOCKED]
  /\ \E t \in [U -> timeouts] :
       timeout = [p \in Users |-> IF p \in U THEN t[p] ELSE 0]
  /\ \E c \in [U -> intervals] :
       check_interval = [p \in Users |-> IF p \in U THEN c[p] ELSE 1]
  /\ fh = [p \in Users |-> None]
  /\ pc = [p \in Users |-> "idle"]
  /\ frame = [p \in Users |-> NoFrame]
  /\ ret = [p \in Users |-> "none"]
  /\ retval = [p \in Users |-> None]
  /\ acquire_count = [p \in Users |-> 0]
  /\ rret = [p \in Users |-> "none"]
  /\ rcall = [p \in Users |-> "none"]
  /\ rpc = [p \in Users |-> "idle"]
  /\ spc = [p \in Users |-> "idle"]
  /\ sframe = [p \in Users |-> NoSFrame]
  /\ sret = [p \in Users |-> "none"]
  /\ written = [p \in Users |-> <<>>]
  /\ ncalls = [p \in Users |-> 0]
  /\ acquires = [p \in Users |-> 0]
  /\ releases = [p \in Users |-> 0]
  /\ released_any = FALSE

\* the same, every Lock on SomeFile
InitWith(U, lockers, modes, flagChoices, timeouts, intervals, fwls) ==
  InitOn(U, {SomeFile}, lockers, modes, flagChoices, timeouts, intervals,
         fwls)

(* ---------------- Spec: processes sharing one Lock file -------------- *)
FlagChoices == {{EX, NB}, {SH, NB}, {EX}}

Init ==
  /\ InitWith(Procs, {"flock", "Win32Locker", "MsvcrtLocker"}, {<<"a">>},
              FlagChoices, {0, MaxTime}, {1}, {DEFAULT_FAIL_WHEN_LOCKED})
  /\ sem = [p \in Users |-> NoSem]

LockStep(p) ==
  \/ Lock_try(p)
  \/ Lock_blocked(p)
  \/ Lock_gen(p)
  \/ Lock_sleep(p)
  \/ Lock_prepare(p)
  \/ Lock_release_close(p)

Next ==
  \/ \E p \in Procs : Lock_acquire(p)
  \/ \E p \in Procs : Lock_release(p)
  \/ \E p \in Procs : LockStep(p)
  \/ Tick

Spec == Init /\ [][Next]_vars

(* ====================== claims checked under Spec ==================== *)
\* another handle holds an exclusive lock on the file of user p's Lock
ExLockedByOther(p) ==
  \E r \in oslocks : r.file = filename[p] /\ r.h # p /\ r.excl

\* the Lock of user p is held: acquire has set fh and release has not yet
\* called the backend unlock
Held(p) == fh[p] # None /\ pc[p] # "closing"

\* C1 as stated: of two Lock instances on the file that both have fh set,
\* neither uses EXCLUSIVE flags (so at most one EXCLUSIVE instance has fh
\* set, and no SHARED one has it set together with an EXCLUSIVE one).
C1_FhSetExcludes ==
  \A p, q \in Procs :
    (p # q /\ fh[p] # None /\ fh[q] # None)
      => (EX \notin flags[p] /\ EX \notin flags[q])

\* C1 (amended): of two Lock instances that are both held (fh set and the
\* instance not inside release, past its backend unlock), neither uses
\* EXCLUSIVE flags; a held instance holds the OS lock of its flags; and an
\* exclusive OS lock on the file is the only OS lock on it.
C1_HeldExcludes ==
  /\ \A p, q \in Procs :
       (p # q /\ Held(p) /\ Held(q))
         => (EX \notin flags[p] /\ EX \notin flags[q])
  /\ \A p \in Procs :
       Held(p) => IF EX \in flags[p] THEN HoldsExclusive(p)
                                     ELSE HoldsShared(p)
  /\ \A p, q \in Procs :
       (p # q /\ HoldsExclusive(p)) => ~HoldsOSLock(q)

\* an EXCLUSIVE instance is held while another instance, refused by the
\* backend, has raised AlreadyLocked
C1_Witness ==
  \E p, q \in Procs :
    /\ p # q
    /\ Held(p) /\ EX \in flags[p] /\ pc[p] = "idle"
    /\ ret[q] = "AlreadyLocked" /\ fh[q] = None /\ pc[q] = "idle"

\* C4: a SHARED lock request made while no other handle holds an exclusive
\* lock on the file (its only holders, if any, are SHARED) succeeds, on
\* every backend: the attempt goes on to _prepare_fh holding a shared lock.
C4_SharedRequestSucceeds ==
  [][\A p \in Procs :
       (/\ pc[p] = "try"
        /\ pc'[p] # "try"
        /\ SH \in flags[p]
        /\ ~ExLockedByOther(p))
         => (pc'[p] = "prepare" /\ HoldsShared(p)')]_vars

\* two handles hold a SHARED lock on the file at the same time, the
\* second taken while the first was held, under MsvcrtLocker
C4_Witness ==
  \E p, q \in Procs :
    /\ p # q
    /\ LOCKER = "MsvcrtLocker"
    /\ HoldsShared(p) /\ HoldsShared(q)
    /\ Held(p) /\ Held(q)

\* C5 as stated: whatever the flags, an attempt with fail_when_locked on a
\* file another handle holds exclusively ends the call with AlreadyLocked,
\* as its first backend call and before any sleep.
C5_FailFastAnyFlags ==
  [][\A p \in Procs :
       (/\ pc[p] = "try"
        /\ pc'[p] # "try"
        /\ frame[p].fwl
        /\ ExLockedByOther(p))
         => (/\ pc'[p] = "idle"
             /\ ret'[p] = "AlreadyLocked"
             /\ frame[p].attempts = 0
             /\ frame[p].sleeps = 0)]_vars

\* C5 (amended): with NON_BLOCKING flags, an attempt with fail_when_locked
\* on a file another handle holds exclusively ends the call with
\* AlreadyLocked: it is the call's first backend call, no sleep came before
\* it, the clock is not read again, and the handle is closed; whatever the
\* timeout and check_interval.
C5_FailFast ==
  [][\A p \in Procs :
       (/\ pc[p] = "try"
        /\ pc'[p] # "try"
        /\ frame[p].fwl
        /\ NB \in flags[p]
        /\ ExLockedByOther(p))
         => (/\ pc'[p] = "idle"
             /\ ret'[p] = "AlreadyLocked"
             /\ frame[p].attempts = 0
             /\ frame[p].sleeps = 0
             /\ ~hOpen'[p]
             /\ fh'[p] = None)]_vars

\* AlreadyLocked was raised against an exclusive holder although the
\* timeout is positive and no time has passed
C5_Witness ==
  \E p, q \in Procs :
    /\ p # q
    /\ HoldsExclusive(q)
    /\ ret[p] = "AlreadyLocked" /\ pc[p] = "idle"
    /\ timeout[p] > 0
    /\ now = 0

\* C6: acquire on a Lock that is held returns the handle fh refers to, the
\* one the first acquire returned, and leaves the handle table, the lock
\* table and the files as they are: no open, no backend call, no truncate.
C6_ReacquireReturnsSameHandle ==
  [][\A p \in Procs :
       (/\ pc[p] = "idle"
        /\ fh[p] # None
        /\ ncalls'[p] = ncalls[p] + 1)
         => (/\ ret'[p] = "ok"
             /\ retval'[p] = fh[p]
             /\ retval[p] = fh[p]
             /\ fh'[p] = fh[p]
             /\ pc'[p] = "idle"
             /\ UNCHANGED osVars)]_vars

\* a second acquire call has returned on a Lock that opened one handle
C6_Witness ==
  \E p \in Procs :
    /\ ncalls[p] = 2 /\ hSerial[p] = 1
    /\ fh[p] = 1 /\ ret[p] = "ok" /\ retval[p] = 1 /\ pc[p] = "idle"

(* -------- SpecWrite: holders of 'w' Locks writing to the file -------- *)
InitWrite ==
  /\ InitWith(Procs, {"flock"}, {<<"w">>, <<"w", "b">>}, {LOCK_METHOD}, {0},
              {1}, {DEFAULT_FAIL_WHEN_LOCKED})
  /\ sem = [p \in Users |-> NoSem]

NextWrite ==
  \/ \E p \in Procs : Lock_acquire(p)
  \/ \E p \in Procs : Lock_release(p)
  \/ \E p \in Procs : Lock_try(p)
  \/ \E p \in Procs : Lock_gen(p)
  \/ \E p \in Procs : Lock_prepare(p)
  \/ \E p \in Procs : Lock_release_close(p)
  \/ \E p \in Procs : Write(p)
  \/ \E p \in Procs : Flush(p)

SpecWrite == InitWrite /\ [][NextWrite]_vars

\* s is an initial part of t
IsPrefix(s, t) == Len(s) <= Len(t) /\ SubSeq(t, 1, Len(s)) = s

C10_FileIsHoldersWrites ==
  \A p \in Procs :
    (Held(p) /\ pc[p] = "idle" /\ HoldsExclusive(p) /\ hBuf[p] = <<>>)
      => fileData[filename[p]] = written[p]


(* ------------------------------- RLock ------------------------------- *)
\* the RLock call of user p returns or raises
RReturn(p, outcome) ==
  /\ rret' = [rret EXCEPT ![p] = outcome]
  /\ rpc' = [rpc EXCEPT ![p] = "idle"]

\* RLock.acquire(fail_when_locked=arg): a held RLock hands out self.fh
\* and counts; otherwise Lock.acquire runs first
RLock_acquire(p) ==
  /\ rpc[p] = "idle"
  /\ pc[p] = "idle"
  /\ CallsMade(NumProcs) < MaxRCalls
  /\ ncalls' = [ncalls EXCEPT ![p] = @ + 1]
  /\ rcall' = [rcall EXCEPT ![p] = "acquire"]
  /\ UNCHANGED <<cfgVars, semVars, releases>>
  /\ IF acquire_count[p] >= 1
       THEN /\ acquire_count' = [acquire_count EXCEPT ![p] = @ + 1]
            /\ IF fh[p] # None
                 THEN /\ RReturn(p, "ok")
                      /\ acquires' = [acquires EXCEPT ![p] = @ + 1]
                 ELSE /\ RReturn(p, "AssertionError")
                      /\ UNCHANGED acquires
            /\ UNCHANGED <<now, osVars, lockVars, written>>
       ELSE /\ \E arg \in {"None", "True"} :
                 AcquireEnter(p, filename[p], mode[p],
                              coalesce(arg, fail_when_locked[p]))
            /\ rpc' = [rpc EXCEPT ![p] = "acquiring"]
            /\ UNCHANGED <<acquire_count, rret, acquires>>

\* an acquire that counts although super().acquire() raised
RLockAcquireCountsFailure(p) ==
  /\ rpc[p] = "acquiring"
  /\ pc[p] = "idle"
  /\ acquire_count' = [acquire_count EXCEPT ![p] = @ + 1]
  /\ IF ret[p] = "ok"
       THEN /\ acquires' = [acquires EXCEPT ![p] = @ + 1]
            /\ RReturn(p, "ok")
       ELSE /\ RReturn(p, ret[p])
            /\ UNCHANGED acquires
  /\ UNCHANGED <<now, osVars, cfgVars, lockVars, rcall, releases, semVars,
                 ghostVars>>

\* super().acquire(...) has returned or raised:
\* self._acquire_count += 1; return fh
RLock_acquire_return(p) ==
  /\ rpc[p] = "acquiring"
  /\ pc[p] = "idle"
  /\ IF ret[p] = "ok"
       THEN /\ acquire_count' = [acquire_count EXCEPT ![p] = @ + 1]
            /\ acquires' = [acquires EXCEPT ![p] = @ + 1]
            /\ RReturn(p, "ok")
       ELSE /\ RReturn(p, ret[p])
            /\ UNCHANGED <<acquire_count, acquires>>
  /\ UNCHANGED <<now, osVars, cfgVars, lockVars, rcall, releases, semVars,
                 ghostVars>>

\* a release that gives up the file lock at every depth
RLockReleaseAlways(p) ==
  IF acquire_count[p] = 0
    THEN /\ RReturn(p, "LockException")
         /\ UNCHANGED <<osVars, pc, acquire_count, releases>>
    ELSE /\ ReleaseEnter(p)
         /\ rpc' = [rpc EXCEPT ![p] = "releasing"]
         /\ UNCHANGED <<acquire_count, rret, releases>>

\* a release without the test for a counter of 0
RLockReleaseUnchecked(p) ==
  IF acquire_count[p] = 1
    THEN /\ ReleaseEnter(p)
         /\ rpc' = [rpc EXCEPT ![p] = "releasing"]
         /\ UNCHANGED <<acquire_count, rret, releases>>
    ELSE /\ acquire_count' = [acquire_count EXCEPT ![p] = @ - 1]
         /\ releases' = [releases EXCEPT ![p] = @ + 1]
         /\ RReturn(p, "ok")
         /\ UNCHANGED <<osVars, pc>>

\* RLock.release up to the return of unlock() inside super().release()
RLockReleaseEnter(p) ==
  IF acquire_count[p] = 0
    THEN /\ RReturn(p, "LockException")
         /\ UNCHANGED <<osVars, pc, acquire_count, releases>>
    ELSE IF acquire_count[p] = 1
      THEN /\ ReleaseEnter(p)
           /\ rpc' = [rpc EXCEPT ![p] = "releasing"]
           /\ UNCHANGED <<acquire_count, rret, releases>>
      ELSE /\ acquire_count' = [acquire_count EXCEPT ![p] = @ - 1]
           /\ releases' = [releases EXCEPT ![p] = @ + 1]
           /\ RReturn(p, "ok")
           /\ UNCHANGED <<osVars, pc>>

\* the call: rlock.release()
RLock_release(p) ==
  /\ rpc[p] = "idle"
  /\ pc[p] = "idle"
  /\ CallsMade(NumProcs) < MaxRCalls
  /\ ncalls' = [ncalls EXCEPT ![p] = @ + 1]
  /\ rcall' = [rcall EXCEPT ![p] = "release"]
  /\ RLockReleaseEnter(p)
  /\ UNCHANGED <<now, cfgVars, fh, frame, ret, retval, acquires, semVars,
                 written>>

\* super().release() has returned: self._acquire_count -= 1
RLock_release_return(p) ==
  /\ rpc[p] = "releasing"
  /\ pc[p] = "idle"
  /\ acquire_count' = [acquire_count EXCEPT ![p] = @ - 1]
  /\ releases' = [releases EXCEPT ![p] = @ + 1]
  /\ RReturn(p, "ok")
  /\ UNCHANGED <<now, osVars, cfgVars, lockVars, rcall, acquires, semVars,
                 ghostVars>>

(* ------------- SpecRLock: processes sharing one RLock file ----------- *)
InitRLock ==
  /\ InitWith(Procs, {"flock", "Win32Locker", "MsvcrtLocker"}, {<<"a">>},
              {LOCK_METHOD, {SH, NB}}, {0}, {1},
              {DEFAULT_FAIL_WHEN_LOCKED})
  /\ sem = [p \in Users |-> NoSem]

NextRLock ==
  \/ \E p \in Procs : RLock_acquire(p)
  \/ \E p \in Procs : RLock_acquire_return(p)
  \/ \E p \in Procs : RLock_release(p)
  \/ \E p \in Procs : RLock_release_return(p)
  \/ \E p \in Procs : Lock_try(p)
  \/ \E p \in Procs : Lock_gen(p)
  \/ \E p \in Procs : Lock_prepare(p)
  \/ \E p \in Procs : Lock_release_close(p)

SpecRLock == InitRLock /\ [][NextRLock]_vars

\* C7: whenever no call of an RLock is running, its counter equals the
\* acquire calls that succeeded minus the release calls that returned, it
\* is not negative, and the RLock holds its file lock (and has fh set)
\* exactly when the counter is greater than 0; the counter is never
\* negative at any time.
C7_CounterTracksLock ==
  \A p \in Procs :
    /\ acquire_count[p] >= 0
    /\ rpc[p] = "idle" =>
         /\ acquire_count[p] = acquires[p] - releases[p]
         /\ HoldsOSLock(p) <=> acquire_count[p] > 0
         /\ fh[p] # None <=> acquire_count[p] > 0
         /\ hOpen[p] <=> acquire_count[p] > 0

\* acquire x3 then release x3 with no failing call has left the file
\* unlocked
C7_Witness ==
  \E p \in Procs :
    /\ rpc[p] = "idle"
    /\ ncalls[p] = 6 /\ acquires[p] = 3 /\ releases[p] = 3
    /\ acquire_count[p] = 0 /\ ~HoldsOSLock(p) /\ fh[p] = None

\* C8: a release call made while the counter is 0 raises LockException and
\* changes neither the counter nor the Lock (fh, the handle, the lock
\* table, the file); and the counter is never negative.
C8_ReleaseAtZeroRaises ==
  /\ [][\A p \in Procs :
          (/\ rcall'[p] = "release"
           /\ ncalls'[p] = ncalls[p] + 1
           /\ acquire_count[p] = 0)
            => (/\ rret'[p] = "LockException"
                /\ rpc'[p] = "idle"
                /\ acquire_count'[p] = 0
                /\ UNCHANGED <<osVars, lockVars, releases>>)]_vars
  /\ [](\A p \in Procs : acquire_count[p] >= 0)

\* one release more than the acquires has raised, the counter still 0
C8_Witness ==
  \E p \in Procs :
    /\ rpc[p] = "idle"
    /\ rcall[p] = "release" /\ rret[p] = "LockException"
    /\ acquires[p] = 2 /\ releases[p] = 2 /\ ncalls[p] = 5
    /\ acquire_count[p] = 0 /\ fh[p] = None

\* C24: RLock.acquire called with the counter at 1 or more returns self.fh
\* and adds 1 to the counter, the handle, the lock table and the Lock left
\* alone; Lock.acquire and the backend lock run only inside an acquire
\* entered at counter 0, the backend unlock only inside a release
\* entered at counter 1; an acquire that fails at counter 0 leaves it 0.
C24_BackendOnlyAtOuterLevel ==
  /\ [][\A p \in Procs :
          /\ (/\ rcall'[p] = "acquire"
              /\ ncalls'[p] = ncalls[p] + 1
              /\ acquire_count[p] >= 1)
               => (/\ rret'[p] = "ok"
                   /\ rpc'[p] = "idle"
                   /\ fh[p] # None
                   /\ acquire_count'[p] = acquire_count[p] + 1
                   /\ UNCHANGED <<osVars, lockVars>>)
          /\ (~HoldsOSLock(p) /\ HoldsOSLock(p)')
               => (acquire_count[p] = 0 /\ rpc[p] = "acquiring")
          /\ (HoldsOSLock(p) /\ ~HoldsOSLock(p)')
               => (/\ acquire_count[p] = 1
                   /\ rcall'[p] = "release"
                   /\ rpc'[p] = "releasing")
          /\ (rpc[p] = "releasing" /\ rpc'[p] = "idle")
               => (acquire_count[p] = 1 /\ acquire_count'[p] = 0)
          /\ (rpc[p] = "acquiring" /\ rpc'[p] = "idle")
               => IF ret[p] = "ok"
                    THEN acquire_count[p] = 0 /\ acquire_count'[p] = 1
                    ELSE /\ acquire_count'[p] = 0
                         /\ ~HoldsOSLock(p)' /\ fh'[p] = None]_vars
  /\ [](\A p \in Procs :
          /\ pc[p] \in {"try", "gen", "prepare"}
               => (rpc[p] = "acquiring" /\ acquire_count[p] = 0)
          /\ pc[p] = "closing"
               => (rpc[p] = "releasing" /\ acquire_count[p] = 1))

\* one RLock re-entered to depth 2 on one file lock while the acquire of
\* another RLock on the same file has failed at counter 0
C24_Witness ==
  \E p, q \in Procs :
    /\ rpc[p] = "idle" /\ acquire_count[p] = 2 /\ acquires[p] = 2
    /\ HoldsOSLock(p)
    /\ rpc[q] = "idle" /\ rcall[q] = "acquire"
    /\ rret[q] = "AlreadyLocked" /\ acquire_count[q] = 0

(* ------- SpecTime: Lock.acquire against a lock that is never released - *)
\* the running call of user p has nothing to do but wait for its sleep
Asleep(p) == pc[p] = "sleep" /\ now < frame[p].wake

\* time passes while some call sleeps and no call has a step to take: the
\* steps of a call take no time, time.sleep returns when it is due
Elapse ==
  /\ \E p \in Procs : Asleep(p)
  /\ \A p \in Procs : pc[p] = "idle" \/ Asleep(p)
  /\ now' = now + 1
  /\ UNCHANGED <<osVars, cfgVars, lockVars, rlockVars, semVars, ghostVars>>

InitTime ==
  /\ InitWith(Procs, {"flock", "MsvcrtLocker"}, {<<"a">>},
              {{EX, NB}, {SH, NB}}, 0..MaxTimeout, 0..MaxInterval,
              {DEFAULT_FAIL_WHEN_LOCKED})
  /\ sem = [p \in Users |-> NoSem]

TimeStep(p) ==
  \/ Lock_try(p)
  \/ Lock_gen(p)
  \/ Lock_sleep(p)
  \/ Lock_prepare(p)

NextTime ==
  \/ \E p \in Procs : Lock_acquire(p)
  \/ \E p \in Procs : TimeStep(p)
  \/ Elapse

\* a running call goes on and the clock goes on
SpecTime ==
  /\ InitTime
  /\ [][NextTime]_vars
  /\ WF_vars(\E p \in Procs : TimeStep(p))
  /\ WF_vars(Elapse)

\* the running Lock.acquire of user p raises in this step
AcquireRaises(p) ==
  /\ pc[p] \in {"try", "gen", "sleep"}
  /\ pc'[p] = "idle"
  /\ ret'[p] \in {"AlreadyLocked", "LockException"}

Max(a, b) == IF a > b THEN a ELSE b

C20_RetrySequence ==
  /\ [][\A p \in Procs :
          /\ (pc[p] = "idle" /\ pc'[p] = "try")
               => (frame'[p].i = 0 /\ frame'[p].attempts = 0)
          /\ frame'[p].i # frame[p].i
               => \/ frame'[p].i = 0 /\ pc'[p] = "idle"
                  \/ /\ frame'[p].i = frame[p].i + 1
                     /\ pc[p] \in {"gen", "sleep"} /\ pc'[p] = "try"
                     /\ now < frame'[p].start_time + timeout[p]
                     /\ frame'[p].start_time =
                          IF frame[p].i = 0 THEN now
                          ELSE frame[p].start_time]_vars
  /\ [](\A p \in Procs :
          /\ timeout[p] = 0 => frame[p].i = 0
          /\ pc[p] = "try" => frame[p].attempts = frame[p].i
          /\ frame[p].i >= 1
               => (frame[p].i - 1) * MinSleep < timeout[p])

\* the second call of a process has been given index 2, counted from a
\* start time of its own
C20_Witness ==
  \E p \in Procs :
    /\ ncalls[p] = 2
    /\ pc[p] = "try" /\ frame[p].i = 2
    /\ frame[p].start_time > 0
    /\ frame[p].start_time = frame[p].t0
    /\ now < frame[p].start_time + timeout[p]

\* C21: every index after the first is taken at the end of a sleep of
\* max(0.001 s, i * check_interval - time since start), index 1 included,
\* so every backend attempt but the first follows a sleep made since the
\* attempt before it.
C21_SleepBetweenIndices ==
  [][\A p \in Procs :
       /\ frame'[p].i = frame[p].i + 1
            => (/\ pc[p] = "sleep"
                /\ now >= frame[p].wake
                /\ frame[p].sleeps = frame[p].i + 1)
       /\ (pc[p] = "gen" /\ pc'[p] = "sleep")
            => frame'[p].wake =
                 now + Max(MinSleep,
                           frame[p].i * check_interval[p]
                             - (now - frame[p].start_time))]_vars

(* --- SpecBackend: lock(fh, flags) and unlock(fh) called on plain handles *)
AllFlags == SUBSET {EX, SH, NB}

\* fh = open('somefile', 'a')
Backend_open(p) ==
  /\ pc[p] = "idle"
  /\ ~hOpen[p]
  /\ OpenOS(p, filename[p], mode[p])
  /\ UNCHANGED <<now, cfgVars, lockVars, rlockVars, semVars, ghostVars>>

\* the result r of a backend lock call reaches the caller
BackendReturn(p, r) ==
  CASE r.res = "ok" ->
         /\ oslocks' = r.L
         /\ slots_full' = SeenFull(r.L)
         /\ ret' = [ret EXCEPT ![p] = "ok"]
         /\ pc' = [pc EXCEPT ![p] = "idle"]
         /\ acquires' = [acquires EXCEPT ![p] = @ + 1]
    [] r.res = "block" ->
         /\ pc' = [pc EXCEPT ![p] = "blocked"]
         /\ ret' = [ret EXCEPT ![p] = "none"]
         /\ UNCHANGED <<oslocks, slots_full, acquires>>
    [] OTHER ->
         /\ ret' = [ret EXCEPT ![p] = r.res]
         /\ pc' = [pc EXCEPT ![p] = "idle"]
         /\ UNCHANGED <<oslocks, slots_full, acquires>>

\* the call: portalocker.lock(fh, fl), on a handle that holds no lock
Backend_lock(p) ==
  /\ pc[p] = "idle"
  /\ hOpen[p]
  /\ ~HoldsOSLock(p)
  /\ CallsMade(NumProcs) < MaxBackendCalls
  /\ ncalls' = [ncalls EXCEPT ![p] = @ + 1]
  /\ rcall' = [rcall EXCEPT ![p] = "lock"]
  /\ \E fl \in AllFlags :
       /\ flags' = [flags EXCEPT ![p] = fl]
       /\ BackendReturn(p, lock(oslocks, p, filename[p], fl))
  /\ UNCHANGED <<now, fileData, hOpen, hSerial, hFile, linked, hBuf, hPos, LOCKER,
                 filename, mode,
                 truncate, fail_when_locked, timeout, check_interval, fh,
                 frame, retval, acquire_count, rpc, rret, releases, semVars,
                 written>>

\* a blocking backend call returns: with the lock once it is free, or, for
\* msvcrt.locking(LK_LOCK), with errno 36 after ten seconds of retries
Backend_blocked(p) ==
  /\ pc[p] = "blocked"
  /\ LET r == lock(oslocks, p, filename[p], flags[p]) IN
       \/ /\ r.res = "ok"
          /\ BackendReturn(p, r)
       \/ /\ r.res = "block"
          /\ LOCKER = "MsvcrtLocker"
          /\ SH \notin flags[p]
          /\ BackendReturn(p, [res |-> "AlreadyLocked", L |-> oslocks])
  /\ UNCHANGED <<now, fileData, hOpen, hSerial, hFile, linked, hBuf, hPos, cfgVars, fh,
                 frame,
                 retval, acquire_count, rpc, rret, rcall, releases, semVars,
                 ghostVars>>

\* the call: portalocker.unlock(fh)
Backend_unlock(p) ==
  /\ pc[p] = "idle"
  /\ hOpen[p]
  /\ CallsMade(NumProcs) < MaxBackendCalls
  /\ ncalls' = [ncalls EXCEPT ![p] = @ + 1]
  /\ rcall' = [rcall EXCEPT ![p] = "unlock"]
  /\ LET r == unlock(oslocks, p) IN
       /\ oslocks' = r.L
       /\ slots_full' = SeenFull(r.L)
       /\ ret' = [ret EXCEPT ![p] = r.res]
       /\ releases' = [releases EXCEPT ![p] =
                         IF r.res = "ok" THEN @ + 1 ELSE @]
  /\ UNCHANGED <<now, fileData, hOpen, hSerial, hFile, linked, hBuf, hPos, cfgVars, fh,
                 pc, frame,
                 retval, acquire_count, rpc, rret, acquires, semVars,
                 written>>

InitBackend ==
  /\ InitWith({}, {"flock", "Win32Locker", "MsvcrtLocker"}, {<<"a">>},
              {LOCK_METHOD}, {0}, {1}, {DEFAULT_FAIL_WHEN_LOCKED})
  /\ sem = [p \in Users |-> NoSem]

NextBackend ==
  \/ \E p \in Procs : Backend_open(p)
  \/ \E p \in Procs : Backend_lock(p)
  \/ \E p \in Procs : Backend_blocked(p)
  \/ \E p \in Procs : Backend_unlock(p)

SpecBackend == InitBackend /\ [][NextBackend]_vars

\* user p calls lock() in this step
LockCalled(p) == ncalls'[p] = ncalls[p] + 1 /\ rcall'[p] = "lock"

\* user p calls unlock() in this step
UnlockCalled(p) == ncalls'[p] = ncalls[p] + 1 /\ rcall'[p] = "unlock"

\* no handle but that of user p holds a lock on p's file
NoOtherHolder(p) == \A r \in oslocks : r.file = filename[p] => r.h = p

\* C12 as stated: with no other holder, lock with any flag combination and
\* then unlock on the same handle raise nothing.
C12_AnyFlagsLockUnlock ==
  [][\A p \in Procs :
       /\ (LockCalled(p) /\ NoOtherHolder(p))
            => (ret'[p] = "ok" /\ HoldsOSLock(p)')
       /\ (UnlockCalled(p) /\ NoOtherHolder(p))
            => (ret'[p] = "ok" /\ ~HoldsOSLock(p)')]_vars

\* the flag combinations the active backend accepts: flock wants exactly
\* one of EXCLUSIVE and SHARED; the Windows backends take any combination
ValidFlags(fl) == LOCKER = "flock" => Cardinality(fl \cap {EX, SH}) = 1

\* C12: with no other holder, lock with a flag combination the backend
\* accepts takes the lock and unlock gives it up, neither raising; on
\* POSIX a combination with both or neither of EXCLUSIVE and SHARED makes
\* lock raise and leaves the file unlocked; unlock never raises.
C12_ValidFlagsLockUnlock ==
  [][\A p \in Procs :
       /\ (LockCalled(p) /\ NoOtherHolder(p))
            => IF ValidFlags(flags'[p])
                 THEN ret'[p] = "ok" /\ HoldsOSLock(p)'
                 ELSE /\ ret'[p] \in {"LockException", "Exception"}
                      /\ oslocks' = oslocks
       /\ UnlockCalled(p) => (ret'[p] = "ok" /\ ~HoldsOSLock(p)')]_vars

\* lock with SHARED | NON_BLOCKING and then unlock have both returned, no
\* other process having called
C12_Witness ==
  \E p \in Procs :
    /\ flags[p] = {SH, NB}
    /\ ncalls[p] = 2 /\ acquires[p] = 1 /\ releases[p] = 1
    /\ rcall[p] = "unlock" /\ ret[p] = "ok"
    /\ ~HoldsOSLock(p)
    /\ \A q \in Procs \ {p} : ncalls[q] = 0

\* C19: under flock, a lock call with NON_BLOCKING and neither EXCLUSIVE
\* nor SHARED raises the usage error (a RuntimeError, outside the lock
\* taxonomy) that PosixLocker.lock raises before it calls flock, and the
\* lock table is unchanged.
C19_BareNonBlockingRejected ==
  [][\A p \in Procs :
       (/\ LockCalled(p)
        /\ LOCKER = "flock"
        /\ NB \in flags'[p]
        /\ flags'[p] \cap {EX, SH} = {})
         => (/\ ret'[p] = "Exception"
             /\ pc'[p] = "idle"
             /\ oslocks' = oslocks)]_vars

\* a lock call with NON_BLOCKING alone was rejected while another handle
\* held the lock, which it still holds
C19_Witness ==
  \E p, q \in Procs :
    /\ p # q
    /\ LOCKER = "flock"
    /\ flags[p] = {NB} /\ rcall[p] = "lock" /\ ret[p] = "Exception"
    /\ ~HoldsOSLock(p)
    /\ HoldsExclusive(q)

(* ---- SpecErr: Lock.acquire with flags and paths of every kind -------- *)
ErrFlagChoices == {{EX, NB}, {EX, SH, NB}, {NB}}

InitErr ==
  /\ InitOn(Procs, {SomeFile, BadFile},
            {"flock", "Win32Locker", "MsvcrtLocker"}, {<<"a">>},
            ErrFlagChoices, {0, MaxTime}, {MinSleep},
            {DEFAULT_FAIL_WHEN_LOCKED})
  /\ sem = [p \in Users |-> NoSem]

NextErr ==
  \/ \E p \in Procs : Lock_acquire(p)
  \/ \E p \in Procs : TimeStep(p)
  \/ Elapse

SpecErr == InitErr /\ [][NextErr]_vars

\* what the backend answers to the lock call user p is about to make
BackendSays(p) == lock(oslocks, p, filename[p], flags[p]).res

\* the handle Lock.acquire returned to user p is open and locked
Usable(p) == fh[p] # None /\ retval[p] = fh[p] /\ hOpen[p] /\ HoldsOSLock(p)

\* C13: a Lock.acquire call that has ended has returned a usable handle or
\* has raised AlreadyLocked or LockException.
C13_HandleOrTypedError ==
  \A p \in Procs :
    (pc[p] = "idle" /\ ncalls[p] > 0)
      => \/ ret[p] = "ok" /\ Usable(p)
         \/ ret[p] \in {"AlreadyLocked", "LockException"}

\* C14: the retry generator is asked for a further index only after the
\* backend raised AlreadyLocked, and after a backend LockException that is
\* not AlreadyLocked the call makes no further attempt.
C14_RetryOnlyAfterAlreadyLocked ==
  [][\A p \in Procs :
       /\ frame'[p].i = frame[p].i + 1
            => frame[p].exception = "AlreadyLocked"
       /\ frame[p].exception = "LockException"
            => frame'[p].attempts <= frame[p].attempts]_vars

\* C15: Lock.acquire raises a backend LockException never as AlreadyLocked
\* and a backend AlreadyLocked never as plain LockException, at once or
\* when the retry sequence is exhausted.
C15_ClassKept ==
  [][\A p \in Procs :
       /\ (pc[p] = "try" /\ pc'[p] = "idle")
            => /\ BackendSays(p) = "LockException"
                    => ret'[p] # "AlreadyLocked"
               /\ BackendSays(p) = "AlreadyLocked"
                    => ret'[p] # "LockException"
       /\ (pc[p] \in {"gen", "sleep"} /\ pc'[p] = "idle")
            => ret'[p] = frame[p].exception]_vars

\* C23: every failed attempt of Lock.acquire replaces the error kept from
\* the attempt before, and when the retry sequence ends without a
\* successful lock call acquire closes the handle it opened, leaves self.fh
\* None and raises the error kept, that of the last attempt.
C23_ExhaustedClosesAndRaisesLast ==
  [][\A p \in Procs :
       /\ (pc[p] = "try" /\ pc'[p] = "gen")
            => (/\ BackendSays(p) \in {"AlreadyLocked", "LockException"}
                /\ frame'[p].exception = BackendSays(p))
       /\ (pc[p] \in {"gen", "sleep"} /\ pc'[p] \in {"gen", "sleep"})
            => frame'[p].exception = frame[p].exception
       /\ (pc[p] \in {"gen", "sleep"} /\ pc'[p] = "idle")
            => (/\ hOpen[p]
                /\ ret'[p] = frame[p].exception
                /\ ret'[p] \in {"AlreadyLocked", "LockException"}
                /\ ~hOpen'[p]
                /\ fh'[p] = None
                /\ ~HoldsOSLock(p)'
                /\ oslocks' = oslocks)]_vars

\* an acquire with flags the backend refuses with an error that is not
\* AlreadyLocked has used up its timeout and raised that error, the handle
\* closed
C23_Witness ==
  \E p \in Procs :
    /\ LOCKER = "flock" /\ flags[p] = {EX, SH, NB}
    /\ timeout[p] = MaxTime /\ now >= MaxTime
    /\ pc[p] = "idle" /\ ret[p] = "LockException"
    /\ ~hOpen[p] /\ fh[p] = None

(* ---- SpecRaise: Lock.acquire on files and in modes of every kind ----- *)
InitRaise ==
  /\ InitOn(Procs, {SomeFile, BadFile, DevNull},
            {"flock", "Win32Locker", "MsvcrtLocker"}, {<<"a">>, <<"w">>},
            ErrFlagChoices, {0, MaxTime}, {MinSleep},
            {DEFAULT_FAIL_WHEN_LOCKED})
  /\ sem = [p \in Users |-> NoSem]

SpecRaise == InitRaise /\ [][NextErr]_vars

\* the last Lock.acquire call of user p has raised
AcquireRaised(p) == pc[p] = "idle" /\ ret[p] \notin {"ok", "none"}

\* C31: after Lock.acquire has raised, the handle it opened is closed,
\* the user holds no lock through it and self.fh is None.
C31_RaiseLeavesNothing ==
  \A p \in Procs :
    AcquireRaised(p) => (~hOpen[p] /\ ~HoldsOSLock(p) /\ fh[p] = None)

(* -------------------------- BoundedSemaphore ------------------------- *)
\* a get_filenames that names one file more than maximum
GetFilenamesOneMore(maximum) ==
  [n \in 1..(maximum + 1) |-> get_filename(n - 1)]

\* a get_filenames that lists the slot files from the highest number down
GetFilenamesDescending(maximum) ==
  [n \in 1..maximum |-> get_filename(maximum - n)]

\* [self.get_filename(n) for n in range(self.maximum)]
get_filenames(maximum) == [n \in 1..maximum |-> get_filename(n - 1)]

\* a try_lock that gives up after the first file name
MoreFilenamesNever(k, filenames) == FALSE

\* try_lock's for loop has a file name after the k-th
MoreFilenames(k, filenames) == k < Len(filenames)

\* some file of the sequence has no lock on it
SlotFree(filenames) ==
  \E i \in 1..Len(filenames) : ~\E r \in oslocks : r.file = filenames[i]

\* a BoundedSemaphore.acquire of user p is running
InAcquire(p) == spc[p] \in {"probing", "sleep"}

\* try_lock, one turn of its loop up to the open() inside Lock.acquire:
\*   self.lock = Lock(filename, fail_when_locked=True); self.lock.acquire()
\* The Lock is a new object: its attributes are those Lock.__init__ sets,
\* and the handle it opens is its first.
Probe(p, slot) ==
  LET f == InDirectory(sem[p].directory, slot) IN
  /\ sem' = [sem EXCEPT ![p].lock = 1]
  /\ filename' = [filename EXCEPT ![p] = f]
  /\ mode' = [mode EXCEPT ![p] = InitMode(<<"a">>)]
  /\ truncate' = [truncate EXCEPT ![p] = InitTruncate(<<"a">>)]
  /\ flags' = [flags EXCEPT ![p] = LOCK_METHOD]
  /\ fail_when_locked' = [fail_when_locked EXCEPT ![p] = TRUE]
  /\ timeout' = [timeout EXCEPT ![p] = DEFAULT_TIMEOUT]
  /\ check_interval' = [check_interval EXCEPT ![p] = DEFAULT_CHECK_INTERVAL]
  /\ fh' = [fh EXCEPT ![p] = None]
  /\ retval' = [retval EXCEPT ![p] = None]
  /\ IF Openable(f)
       THEN /\ hOpen' = [hOpen EXCEPT ![p] = TRUE]
            /\ hSerial' = [hSerial EXCEPT ![p] = 1]
            /\ linked' = Created(f)
            /\ hFile' = [hFile EXCEPT ![p] = linked'[f].made]
            /\ hBuf' = [hBuf EXCEPT ![p] = <<>>]
            /\ hPos' = [hPos EXCEPT ![p] = Len(fileData[f])]
            /\ pc' = [pc EXCEPT ![p] = "try"]
            /\ frame' = [frame EXCEPT ![p] = [NoFrame EXCEPT
                                                 !.fwl = coalesce("None", TRUE),
                                                 !.t0 = now]]
            /\ ret' = [ret EXCEPT ![p] = "none"]
       ELSE \* open() raises in _get_fh: Lock.acquire raises at once
            /\ ret' = [ret EXCEPT ![p] = "OSError"]
            /\ UNCHANGED <<hOpen, hSerial, hFile, linked, hBuf, hPos, pc,
                           frame>>
  /\ UNCHANGED <<LOCKER, fileData, oslocks>>

\* the call of user p returns or raises
SemReturn(p, outcome) ==
  /\ sret' = [sret EXCEPT ![p] = outcome]
  /\ spc' = [spc EXCEPT ![p] = "idle"]
  /\ sframe' = [sframe EXCEPT ![p] = NoSFrame]
  /\ slots_full' = [slots_full EXCEPT ![p] = FALSE]

\* an exhausted acquire that raises whatever fail_when_locked is
SemExhaustedAlwaysRaises(p) ==
  /\ sem' = [sem EXCEPT ![p].lock = None]
  /\ SemReturn(p, "AlreadyLocked")
  /\ UNCHANGED <<fileVars, cfgVars, lockVars>>

\* the generator is exhausted:
\*   if coalesce(fail_when_locked, self.fail_when_locked):
\*       raise AlreadyLocked()
\*   return None
SemExhausted(p) ==
  /\ sem' = [sem EXCEPT ![p].lock = None]
  /\ SemReturn(p, IF sframe[p].fwl THEN "AlreadyLocked" ELSE "None")
  /\ UNCHANGED <<fileVars, cfgVars, lockVars>>

\* while start_time + f_timeout > time.perf_counter(): i += 1; yield i
\* and the next call of try_lock, at its first file name
SemGenNext(p, start) ==
  IF start + sem[p].timeout > now
    THEN /\ sframe' = [sframe EXCEPT ![p].i = @ + 1,
                                      ![p].start_time = start,
                                      ![p].k = 1,
                                      ![p].sweeps = @ + 1]
         /\ Probe(p, get_filenames(Maximum)[1])
         /\ UNCHANGED <<spc, sret, slots_full>>
    ELSE SemExhausted(p)

\* an acquire that does not look at self.lock
HeldNotChecked(p) == FALSE

\* assert not self.lock, 'Already locked' fails
AlreadyHeld(p) == sem[p].lock # None

\* the call: semaphore.acquire(fail_when_locked=arg), up to the first open
BoundedSemaphore_acquire(p) ==
  /\ spc[p] = "idle"
  /\ pc[p] = "idle"
  /\ CallsMade(NumSems) < MaxSemCalls
  /\ ncalls' = [ncalls EXCEPT ![p] = @ + 1]
  /\ UNCHANGED <<now, rlockVars, written, released_any>>
  /\ IF AlreadyHeld(p)
       THEN /\ sret' = [sret EXCEPT ![p] = "AssertionError"]
            /\ UNCHANGED <<osVars, cfgVars, lockVars, sem, spc, sframe>>
       ELSE /\ \E arg \in {"None", "False"} :
                 sframe' = [q \in Users |->
                   IF q = p
                     THEN [NoSFrame EXCEPT
                            !.fwl = coalesce(arg, sem[p].fail_when_locked),
                            !.k = 1,
                            !.sweeps = 1,
                            !.alone =
                               /\ SlotFree(get_filenames(Maximum))
                               /\ \A o \in Users \ {p} : ~InAcquire(o)]
                     ELSE IF InAcquire(q)
                       THEN [sframe[q] EXCEPT !.alone = FALSE]
                       ELSE sframe[q]]
            /\ spc' = [spc EXCEPT ![p] = "probing"]
            /\ Probe(p, get_filenames(Maximum)[1])
            /\ slots_full' = [slots_full EXCEPT ![p] = AllSlotsLocked(oslocks)]
            /\ UNCHANGED sret

\* self.lock.acquire() has returned or raised inside try_lock
BoundedSemaphore_try_lock(p) ==
  /\ spc[p] = "probing"
  /\ pc[p] = "idle"
  /\ UNCHANGED <<now, rlockVars, ghostVars, released_any>>
  /\ CASE ret[p] = "ok" ->
            /\ SemReturn(p, "Lock")
            /\ UNCHANGED <<fileVars, cfgVars, lockVars, sem>>
       [] ret[p] = "AlreadyLocked" ->
            IF MoreFilenames(sframe[p].k, get_filenames(Maximum))
              THEN /\ sframe' = [sframe EXCEPT ![p].k = @ + 1]
                   /\ Probe(p, get_filenames(Maximum)[sframe[p].k + 1])
                   /\ UNCHANGED <<spc, sret, slots_full>>
              ELSE IF sframe[p].i = 0
                THEN SemGenNext(p, now)
                ELSE /\ sem' = [sem EXCEPT ![p].lock = None]
                     /\ sframe' = [sframe EXCEPT ![p].wake =
                          now + SleepTime(sframe[p].i, sem[p].check_interval,
                                          now - sframe[p].start_time)]
                     /\ spc' = [spc EXCEPT ![p] = "sleep"]
                     /\ UNCHANGED <<osVars, cfgVars, lockVars, sret>>
       [] OTHER ->
            /\ SemReturn(p, ret[p])
            /\ UNCHANGED <<fileVars, cfgVars, lockVars, sem>>

\* time.sleep returns inside the semaphore's retry generator
BoundedSemaphore_sleep(p) ==
  /\ spc[p] = "sleep"
  /\ now >= sframe[p].wake
  /\ SemGenNext(p, sframe[p].start_time)
  /\ UNCHANGED <<now, rlockVars, ghostVars, released_any>>

\* if self.lock is not None: self.lock.release() ...
SemReleaseEnter(p) ==
  IF sem[p].lock # None
    THEN /\ ReleaseEnter(p)
         /\ spc' = [spc EXCEPT ![p] = "releasing"]
         /\ released_any' = TRUE
    ELSE UNCHANGED <<osVars, pc, spc, released_any>>

\* the call: semaphore.release(), up to the return of unlock()
BoundedSemaphore_release(p) ==
  /\ spc[p] = "idle"
  /\ pc[p] = "idle"
  /\ SemReleaseEnter(p)
  /\ UNCHANGED <<now, cfgVars, fh, frame, ret, retval, rlockVars, sem,
                 sframe, sret, ghostVars>>

\* self.lock.release() has returned: self.lock = None
BoundedSemaphore_release_return(p) ==
  /\ spc[p] = "releasing"
  /\ pc[p] = "idle"
  /\ sem' = [sem EXCEPT ![p].lock = None]
  /\ spc' = [spc EXCEPT ![p] = "idle"]
  /\ UNCHANGED <<now, osVars, cfgVars, lockVars, rlockVars, sframe, sret,
                 released_any, ghostVars>>

(* ----- SpecSem: BoundedSemaphore(Maximum) objects in NumSems processes *)
InitSem ==
  /\ InitWith({}, {"flock"}, {<<"a">>},
              {LOCK_METHOD}, {0}, {1}, {DEFAULT_FAIL_WHEN_LOCKED})
  /\ \E t \in {0, 1}, fw \in {TRUE} :
       sem = [p \in Users |->
               IF p \in Sems
                 THEN [timeout |-> t, check_interval |-> 1,
                       fail_when_locked |-> fw, lock |-> None,
                       directory |-> "tmp"]
                 ELSE NoSem]

NextSem ==
  \/ \E p \in Sems : BoundedSemaphore_acquire(p)
  \/ \E p \in Sems : BoundedSemaphore_try_lock(p)
  \/ \E p \in Sems : BoundedSemaphore_sleep(p)
  \/ \E p \in Sems : BoundedSemaphore_release(p)
  \/ \E p \in Sems : BoundedSemaphore_release_return(p)
  \/ \E p \in Sems : Lock_try(p)
  \/ \E p \in Sems : Lock_prepare(p)
  \/ \E p \in Sems : Lock_release_close(p)
  \/ Tick

SpecSem == InitSem /\ [][NextSem]_vars

\* the semaphore of user p is HELD: its lock attribute refers to a Lock
\* whose handle holds the lock on a slot file
SemHeld(p) == sem[p].lock # None /\ HoldsExclusive(p)

Min(a, b) == IF a < b THEN a ELSE b

\* C2: at most Maximum semaphores are HELD, and two that are HELD hold
\* different slot files.
C2_AtMostMaximumHeld ==
  /\ Cardinality({p \in Sems : SemHeld(p)}) <= Maximum
  /\ \A p, q \in Sems :
       (p # q /\ SemHeld(p) /\ SemHeld(q)) => filename[p] # filename[q]

\* Maximum semaphores are HELD, after a release, and another was refused
C2_Witness ==
  /\ released_any
  /\ Cardinality({p \in Sems : SemHeld(p) /\ spc[p] = "idle"}) = Maximum
  /\ \E p \in Sems :
       /\ sem[p].lock = None /\ spc[p] = "idle"
       /\ sret[p] \in {"AlreadyLocked", "None"}

\* C3: when every semaphore has made one acquire call, all have ended and
\* none was released, then as many as there are slots (or semaphores, if
\* fewer) ended with the Lock and no other did; an acquire call with
\* fail_when_locked that does not end with the Lock ends with
\* AlreadyLocked; and an acquire call that began while a slot was free (as
\* after a release) and that ran with no other acquire in progress ends
\* with the Lock.
C3_TwoOfThreeThenFourth ==
  /\ []((/\ ~released_any
         /\ \A p \in Sems : ncalls[p] = 1 /\ spc[p] = "idle")
          => (/\ Cardinality({p \in Sems : sret[p] = "Lock" /\ SemHeld(p)})
                   = Min(Maximum, NumSems)
              /\ \A p \in Sems :
                   sret[p] # "Lock" =>
                     /\ sret[p] \in {"AlreadyLocked", "None"}
                     /\ ~SemHeld(p)))
  /\ [][\A p \in Sems :
          (InAcquire(p) /\ spc'[p] = "idle")
            => (/\ (sframe[p].fwl /\ sret'[p] # "Lock")
                     => sret'[p] = "AlreadyLocked"
                /\ sframe[p].alone
                     => (sret'[p] = "Lock" /\ SemHeld(p)'))]_vars

\* after the first three attempts and a release, a fourth attempt, with
\* no other acquire in progress, has ended with the Lock
C3_Witness ==
  /\ released_any
  /\ \E p \in Sems :
       /\ ncalls[p] = 2 /\ sret[p] = "Lock" /\ spc[p] = "idle"
       /\ SemHeld(p)
       /\ \A q \in Sems \ {p} : ncalls[q] = 1 /\ spc[q] = "idle"
       /\ \E q \in Sems \ {p} : sret[q] = "Lock" /\ ~SemHeld(q)

\* C16: a BoundedSemaphore.acquire that ends without the Lock ends only
\* when the retry sequence is exhausted (the deadline has passed, or the
\* timeout is 0 and index 0 is done), after one full sweep of the slot
\* files for every index it was given; it raises AlreadyLocked when
\* fail_when_locked resolved true and returns None otherwise; and the
\* instance is then UNHELD, with no slot file open or locked.
C16_ExhaustedThenRaiseOrNone ==
  [][\A p \in Sems :
       (InAcquire(p) /\ spc'[p] = "idle" /\ sret'[p] # "Lock")
         => (/\ sret'[p] = IF sframe[p].fwl THEN "AlreadyLocked" ELSE "None"
             /\ sframe[p].sweeps = sframe[p].i + 1
             /\ sframe[p].k = Maximum
             /\ LET start == IF sframe[p].i = 0 THEN now
                             ELSE sframe[p].start_time
                IN  start + sem[p].timeout <= now
             /\ sem'[p].lock = None
             /\ ~hOpen'[p]
             /\ ~HoldsOSLock(p)')]_vars

\* with all slots held by others, an acquire with a timeout has raised
\* AlreadyLocked after the deadline
C16_Witness ==
  \E p \in Sems :
    /\ spc[p] = "idle" /\ ncalls[p] = 1
    /\ sret[p] = "AlreadyLocked"
    /\ sem[p].lock = None /\ ~HoldsOSLock(p)
    /\ sem[p].timeout > 0 /\ now >= sem[p].timeout
    /\ ~released_any
    /\ Cardinality({q \in Sems \ {p} : SemHeld(q)}) = Maximum

\* C18: a BoundedSemaphore.acquire call on an instance that is HELD raises
\* the usage error (AssertionError) at once, opens and probes no slot
\* file, and leaves the instance, its Lock, its handle and every file
\* lock as they were.
C18_AcquireWhileHeldFails ==
  [][\A p \in Sems :
       (ncalls'[p] = ncalls[p] + 1 /\ sem[p].lock # None)
         => (/\ sret'[p] = "AssertionError"
             /\ spc'[p] = "idle"
             /\ UNCHANGED <<osVars, cfgVars, lockVars, sem>>)]_vars

\* a second acquire on a HELD semaphore has raised, the slot still held
C18_Witness ==
  \E p \in Sems :
    /\ spc[p] = "idle" /\ ncalls[p] = 2
    /\ sret[p] = "AssertionError"
    /\ SemHeld(p) /\ hOpen[p] /\ fh[p] # None

\* the slot file number n has a lock of another user on it
SlotTaken(p, n) ==
  \E r \in oslocks : r.file = get_filename(n) /\ r.h # p

\* C25: a sweep of try_lock starts at slot file 0 and goes on to the file
\* of the next number only after the probe of the one before it raised
\* AlreadyLocked; every probe is the acquire of a new Lock with
\* fail_when_locked and the exclusive non-blocking flags; the sweep ends at
\* the first probe that gets its lock, with that file locked for the
\* semaphore, and probes nothing after it.
C25_SweepAscendingFirstFree ==
  /\ [](\A p \in Sems :
          spc[p] = "probing"
            => (/\ sframe[p].k \in 1..Maximum
                /\ filename[p] = get_filename(sframe[p].k - 1)
                /\ flags[p] = {EX, NB}
                /\ fail_when_locked[p]
                /\ pc[p] = "try" => frame[p].fwl))
  /\ [][\A p \in Sems :
          /\ (spc'[p] = "probing"
                /\ (spc[p] # "probing"
                      \/ sframe'[p].sweeps # sframe[p].sweeps))
               => (sframe'[p].k = 1 /\ pc'[p] = "try")
          /\ (spc[p] = "probing" /\ spc'[p] = "probing"
                /\ sframe'[p].sweeps = sframe[p].sweeps
                /\ sframe'[p].k # sframe[p].k)
               => (/\ sframe'[p].k = sframe[p].k + 1
                   /\ pc[p] = "idle" /\ ret[p] = "AlreadyLocked"
                   /\ pc'[p] = "try")
          /\ (pc[p] = "try" /\ pc'[p] # "try")
               => IF SlotTaken(p, sframe[p].k - 1)
                    THEN pc'[p] = "idle" /\ ret'[p] = "AlreadyLocked"
                    ELSE pc'[p] = "prepare"
          /\ (spc[p] = "probing" /\ pc[p] = "idle" /\ ret[p] = "ok"
                /\ <<spc[p], sframe[p].k, sframe[p].sweeps>>'
                     # <<spc[p], sframe[p].k, sframe[p].sweeps>>)
               => (/\ spc'[p] = "idle" /\ sret'[p] = "Lock"
                   /\ pc'[p] = "idle"
                   /\ filename'[p] = filename[p]
                   /\ \E r \in oslocks' :
                        /\ r.h = p /\ r.excl
                        /\ r.file = get_filename(sframe[p].k - 1))]_vars

\* a sweep that found slot file 0 locked by another semaphore has got
\* slot file 1 at its second probe
C25_Witness ==
  \E p \in Sems :
    /\ spc[p] = "probing" /\ pc[p] = "idle" /\ ret[p] = "ok"
    /\ sframe[p].k = 2
    /\ SlotTaken(p, 0)
    /\ \E r \in oslocks : r.h = p /\ r.file = get_filename(1) /\ r.excl

\* the locks user p has in the lock table
LocksOf(p) == {r \in oslocks : r.h = p}

\* C26: a semaphore has at most one lock in the lock table, on the file
\* it probed last and through a handle that is open; when it opens the
\* next file of a sweep, sleeps between two sweeps or has given up, the
\* handle of the failed probe is closed and it has no lock at all.
C26_AtMostOneSlotLocked ==
  /\ [](\A p \in Sems :
          /\ Cardinality(LocksOf(p)) <= 1
          /\ \A r \in LocksOf(p) :
               /\ hOpen[p]
               /\ r.file = filename[p]
               /\ r.file \in {get_filename(n) : n \in 0..(Maximum - 1)}
          /\ (\/ spc[p] = "sleep"
              \/ spc[p] = "probing" /\ pc[p] = "idle" /\ ret[p] # "ok"
              \/ spc[p] = "idle" /\ sem[p].lock = None)
               => (~hOpen[p] /\ LocksOf(p) = {}))
  /\ [][\A p \in Sems :
          (pc[p] = "idle" /\ pc'[p] = "try")
            => (~hOpen[p] /\ LocksOf(p) = {} /\ LocksOf(p)' = {})]_vars

\* in the middle of a sweep: the probe of slot file 0 has failed and the
\* semaphore is about to lock slot file 1, the only file it has open
C26_Witness ==
  \E p \in Sems :
    /\ spc[p] = "probing" /\ pc[p] = "prepare"
    /\ sframe[p].k = 2
    /\ SlotTaken(p, 0)
    /\ LocksOf(p) = {Rec(p, get_filename(1), "flock", TRUE)}

\* the acquire of user p ends in this step without a slot
SemFails(p) ==
  /\ InAcquire(p)
  /\ spc'[p] = "idle"
  /\ sret'[p] \in {"AlreadyLocked", "None"}

\* C33: a BoundedSemaphore.acquire with timeout 0 (a single sweep) fails
\* only if all slot files were locked at the same instant at some point of
\* the call.
C33_FailsOnlyWhenFull ==
  [][\A p \in Sems :
       (SemFails(p) /\ sem[p].timeout = 0) => slots_full[p]]_vars

(* -- SpecRelease: Lock users and a BoundedSemaphore user, release calls - *)
\* the processes that use a BoundedSemaphore here
SemUsers == Sems \ Procs

\* the call: lock.release(), counted
Lock_release_call(p) ==
  /\ pc[p] = "idle"
  /\ CallsMade(NumSems) < MaxRCalls
  /\ ncalls' = [ncalls EXCEPT ![p] = @ + 1]
  /\ releases' = [releases EXCEPT ![p] = @ + 1]
  /\ ReleaseEnter(p)
  /\ UNCHANGED <<now, cfgVars, fh, frame, ret, retval, acquire_count, rpc,
                 rret, rcall, acquires, semVars, written>>

\* the call: semaphore.release(), counted, up to the return of unlock()
BoundedSemaphore_release_call(p) ==
  /\ spc[p] = "idle"
  /\ pc[p] = "idle"
  /\ CallsMade(NumSems) < MaxRCalls
  /\ ncalls' = [ncalls EXCEPT ![p] = @ + 1]
  /\ releases' = [releases EXCEPT ![p] = @ + 1]
  /\ SemReleaseEnter(p)
  /\ UNCHANGED <<now, cfgVars, fh, frame, ret, retval, acquire_count, rpc,
                 rret, rcall, acquires, sem, sframe, sret, written>>

InitRelease ==
  /\ InitWith(Procs, {"flock", "Win32Locker", "MsvcrtLocker"}, {<<"a">>},
              {LOCK_METHOD}, {0}, {1}, {DEFAULT_FAIL_WHEN_LOCKED})
  /\ sem = [p \in Users |-> NoSem]

NextRelease ==
  \/ \E p \in Procs : Lock_acquire(p)
  \/ \E p \in Procs : Lock_release_call(p)
  \/ \E p \in Procs : Lock_gen(p)
  \/ \E p \in SemUsers : BoundedSemaphore_acquire(p)
  \/ \E p \in SemUsers : BoundedSemaphore_try_lock(p)
  \/ \E p \in SemUsers : BoundedSemaphore_release_call(p)
  \/ \E p \in SemUsers : BoundedSemaphore_release_return(p)
  \/ \E p \in Procs \cup SemUsers : Lock_try(p)
  \/ \E p \in Procs \cup SemUsers : Lock_prepare(p)
  \/ \E p \in Procs \cup SemUsers : Lock_release_close(p)

SpecRelease == InitRelease /\ [][NextRelease]_vars

\* user p calls release() in this step
ReleaseCalled(p) == releases'[p] = releases[p] + 1

\* C17: a Lock.release call on a Lock with fh not set, and a
\* BoundedSemaphore.release call on an instance whose lock is None, end at
\* once, record no error, and change nothing: not the instance, not its
\* handle, not a file, not the lock table.
C17_ReleaseUnheldNoOp ==
  [][/\ \A p \in Procs :
          (ReleaseCalled(p) /\ fh[p] = None)
            => (/\ pc'[p] = "idle"
                /\ UNCHANGED <<now, osVars, cfgVars, lockVars, semVars>>)
     /\ \A p \in SemUsers :
          (ReleaseCalled(p) /\ sem[p].lock = None)
            => (/\ spc'[p] = "idle" /\ pc'[p] = "idle"
                /\ UNCHANGED <<now, osVars, cfgVars, lockVars,
                               semVars>>)]_vars

\* a Lock and a semaphore that never acquired were released while another
\* Lock held the file, which it still holds
C17_Witness ==
  /\ \E p, q \in Procs :
       /\ p # q
       /\ ncalls[p] = 1 /\ releases[p] = 1 /\ pc[p] = "idle"
       /\ fh[p] = None
       /\ Held(q) /\ HoldsExclusive(q)
  /\ \E s \in SemUsers :
       /\ ncalls[s] = 1 /\ releases[s] = 1 /\ spc[s] = "idle"
       /\ sem[s].lock = None

(* SpecSlots: Lock users on the slot files and a BoundedSemaphore user --- *)
SlotFiles == {get_filename(n) : n \in 0..(Maximum - 1)}

\* every process that runs Lock.acquire here, directly or inside try_lock
LockUsers == Procs \cup SemUsers

InitSlots ==
  /\ InitOn(Procs, SlotFiles, {"flock"},
            {<<"a">>}, {LOCK_METHOD}, {MaxTime}, {MinSleep},
            {DEFAULT_FAIL_WHEN_LOCKED})
  /\ \A p \in Procs : filename[p] = get_filename(p - 1)
  /\ \E t \in {1} :
       sem = [p \in Users |->
               IF p \in SemUsers
                 THEN [timeout |-> t, check_interval |-> 1,
                       fail_when_locked |-> TRUE, lock |-> None,
                       directory |-> "tmp"]
                 ELSE NoSem]

NextSlots ==
  \/ \E p \in Procs : Lock_acquire(p)
  \/ \E p \in Procs : Lock_release(p)
  \/ \E p \in Procs : Lock_gen(p)
  \/ \E p \in Procs : Lock_sleep(p)
  \/ \E p \in LockUsers : Lock_try(p)
  \/ \E p \in LockUsers : Lock_prepare(p)
  \/ \E p \in LockUsers : Lock_release_close(p)
  \/ \E p \in SemUsers : BoundedSemaphore_acquire(p)
  \/ \E p \in SemUsers : BoundedSemaphore_try_lock(p)
  \/ \E p \in SemUsers : BoundedSemaphore_sleep(p)
  \/ \E p \in SemUsers : BoundedSemaphore_release(p)
  \/ \E p \in SemUsers : BoundedSemaphore_release_return(p)
  \/ Tick

SpecSlots == InitSlots /\ [][NextSlots]_vars

\* C22: Lock.acquire makes its attempt number i + 1 at index i, and after
\* the first backend call that succeeds it makes no further attempt, takes
\* no further index and does not sleep: it prepares the handle and returns
\* it, held.  BoundedSemaphore.acquire makes its sweep number i + 1 at
\* index i, and when a sweep has got a slot it probes nothing more, takes
\* no further index and returns the Lock, held.
C22_OncePerIndexStopAtSuccess ==
  /\ [](/\ \A p \in LockUsers :
             /\ pc[p] = "try" => frame[p].attempts = frame[p].i
             /\ pc[p] \in {"gen", "sleep", "prepare"}
                  => frame[p].attempts = frame[p].i + 1
        /\ \A p \in SemUsers :
             InAcquire(p) => sframe[p].sweeps = sframe[p].i + 1)
  /\ [][/\ \A p \in LockUsers :
             /\ (pc[p] = "try" /\ BackendSays(p) = "ok" /\ pc'[p] # "try")
                  => (pc'[p] = "prepare" /\ HoldsOSLock(p)')
             /\ (pc[p] = "prepare" /\ pc'[p] # "prepare")
                  => (/\ pc'[p] = "idle"
                      /\ ret'[p] = "ok"
                      /\ fh'[p] # None /\ retval'[p] = fh'[p]
                      /\ hOpen'[p] /\ HoldsOSLock(p)'
                      /\ oslocks' = oslocks)
        /\ \A p \in SemUsers :
             (spc[p] = "probing" /\ pc[p] = "idle" /\ ret[p] = "ok"
                /\ <<spc[p], sframe[p], pc[p]>>' # <<spc[p], sframe[p], pc[p]>>)
               => (/\ spc'[p] = "idle"
                   /\ sret'[p] = "Lock"
                   /\ SemHeld(p)'
                   /\ UNCHANGED <<fileVars, lockVars, filename>>)]_vars

\* a sweep at index 1, after a first sweep that found every slot taken,
\* has got a slot a Lock user released in between, and acquire is about
\* to return
C22_Witness ==
  \E p \in SemUsers :
    /\ spc[p] = "probing" /\ pc[p] = "idle" /\ ret[p] = "ok"
    /\ sframe[p].i = 1 /\ sframe[p].sweeps = 2
    /\ HoldsExclusive(p)
    /\ \E q \in Procs : Held(q)

(* ---- SpecNt: the nt lock() and unlock() on handles at any position --- *)
\* a restore that never seeks
RestoreSkipped(cur, original_pos) == cur

\* _prepare_windows_file on an IO object at position pos: the position
\* after it, and the position it saved
prepare_windows_file(pos) ==
  [pos |-> IF pos # 0 THEN 0 ELSE pos, original_pos |-> pos]

\* _prepare_windows_file on a plain file descriptor: nothing is saved and
\* the descriptor stays where it is
prepare_windows_fd(pos) == [pos |-> pos, original_pos |-> None]

\* the file_obj arguments of lock() and unlock(): the IO object fh, or its
\* descriptor fh.fileno()
FileArguments == {"io", "fd"}

PrepareFile(file_obj, pos) ==
  IF file_obj = "fd" THEN prepare_windows_fd(pos)
  ELSE prepare_windows_file(pos)

\* _restore_windows_file_pos: the position after it, from the position cur
restore_windows_file_pos(cur, original_pos) ==
  IF original_pos # 0 THEN original_pos ELSE cur

\* OS errors that have nothing to do with who holds the lock
Win32Faults == {"ERROR_INVALID_HANDLE"}
MsvcrtFaults == {"EBADF", "EDEADLOCK"}

\* what LockFileEx, UnlockFileEx and msvcrt.locking may answer: the answer
\* of the lock table, or a fault
LockFileExOutcomes(L, h, f, excl, failImmediately) ==
  {LockFileEx(L, h, f, excl, failImmediately)}
    \cup {[res |-> e, L |-> L] : e \in Win32Faults}

UnlockFileExOutcomes(L, h) ==
  {UnlockFileEx(L, h)}
    \cup {[res |-> e, L |-> L] : e \in Win32Faults \cup {"OSError"}}

MsvcrtLockingOutcomes(L, h, f, nonBlocking, pos) ==
  {MsvcrtLockingAt(L, h, f, nonBlocking, pos)}
    \cup {[res |-> e, L |-> L] : e \in MsvcrtFaults}

MsvcrtUnlockingOutcomes(L, h, pos) ==
  {MsvcrtUnlockingAt(L, h, pos)}
    \cup {[res |-> e, L |-> L] : e \in {"EBADF"}}

\* fh.seek(o) by the owner of the handle
Nt_seek(p) ==
  /\ pc[p] = "idle"
  /\ hOpen[p]
  /\ \E o \in 0..MaxPos :
       /\ o # hPos[p]
       /\ hPos' = [hPos EXCEPT ![p] = o]
  /\ UNCHANGED <<now, fileData, oslocks, slots_full, hOpen, hSerial, hFile, linked, hBuf, cfgVars,
                 lockVars, rlockVars, semVars, ghostVars>>

\* a call of lock() or unlock() ends: result r after the OS calls c, the
\* handle left at position pos; fr are the locals of the call
NtReturn(p, r, c, pos, fr) ==
  /\ oslocks' = r.L
  /\ slots_full' = SeenFull(r.L)
  /\ ret' = [ret EXCEPT ![p] = r.res]
  /\ pc' = [pc EXCEPT ![p] = "idle"]
  /\ hPos' = [hPos EXCEPT ![p] = pos]
  /\ frame' = [frame EXCEPT ![p] = [fr EXCEPT !.oscalls = c]]

\* the OS call of lock() has not returned: the handle stays where
\* _prepare_windows_file left it
NtBlocks(p, pr, fr) ==
  /\ pc' = [pc EXCEPT ![p] = "blocked"]
  /\ hPos' = [hPos EXCEPT ![p] = pr.pos]
  /\ frame' = [frame EXCEPT ![p] = [fr EXCEPT !.pos_ctx = pr.original_pos]]
  /\ ret' = [ret EXCEPT ![p] = "none"]
  /\ UNCHANGED <<oslocks, slots_full>>

\* Win32Locker.lock from the outcome r of LockFileEx on, the file
\* prepared as pr says
Win32LockFrom(p, r, pr, fr) ==
  IF r.res = "block"
    THEN NtBlocks(p, pr, fr)
    ELSE NtReturn(p, Win32LockResult(r), <<<<"LockFileEx", r.res>>>>,
                  restore_windows_file_pos(pr.pos, pr.original_pos), fr)

\* MsvcrtLocker.lock without SHARED from the outcome r of msvcrt.locking on
MsvcrtLockFrom(p, r, pr, fr) ==
  IF r.res = "block"
    THEN NtBlocks(p, pr, fr)
    ELSE NtReturn(p, MsvcrtLockResult(r), <<<<"locking", r.res>>>>,
                  restore_windows_file_pos(pr.pos, pr.original_pos), fr)

\* the flags MsvcrtLocker.lock hands to Win32Locker.lock for SHARED
Win32ApiFlags(fl) == IF LOCKER = "MsvcrtLocker" THEN fl \cap {NB} ELSE fl

\* the flags lock() is called with: exclusive or shared, without blocking,
\* and exclusive, blocking
NtFlags == {{EX, NB}, {SH, NB}, {EX}}

\* the call: portalocker.lock(fh, fl) on nt, on a handle that holds no lock
Nt_lock(p) ==
  /\ pc[p] = "idle"
  /\ hOpen[p]
  /\ ~HoldsOSLock(p)
  /\ CallsMade(NumProcs) < MaxNtCalls
  /\ ncalls' = [ncalls EXCEPT ![p] = @ + 1]
  /\ rcall' = [rcall EXCEPT ![p] = "lock"]
  /\ \E fl \in NtFlags, file_obj \in FileArguments :
       /\ flags' = [flags EXCEPT ![p] = fl]
       /\ LET pr == PrepareFile(file_obj, hPos[p])
              fr == [NoFrame EXCEPT !.pos0 = hPos[p]]
          IN
          IF LOCKER = "MsvcrtLocker" /\ SH \notin fl
            THEN \E r \in MsvcrtLockingOutcomes(oslocks, p, filename[p],
                                                NB \in fl, pr.pos) :
                   MsvcrtLockFrom(p, r, pr, fr)
            ELSE \E r \in LockFileExOutcomes(oslocks, p, filename[p],
                                             EX \in Win32ApiFlags(fl),
                                             NB \in Win32ApiFlags(fl)) :
                   Win32LockFrom(p, r, pr, fr)
  /\ UNCHANGED <<now, fileData, hOpen, hSerial, hFile, linked, hBuf, LOCKER, filename, mode,
                 truncate, fail_when_locked, timeout, check_interval, fh,
                 retval, acquire_count, rpc, rret, acquires, releases,
                 semVars, written>>

\* a blocking OS call returns: LockFileEx with the lock once it is free;
\* msvcrt.locking(LK_LOCK) with the lock, or with errno 36 after ten
\* seconds of retries
Nt_blocked(p) ==
  /\ pc[p] = "blocked"
  /\ LET pr == [pos |-> hPos[p], original_pos |-> frame[p].pos_ctx] IN
     IF LOCKER = "MsvcrtLocker" /\ SH \notin flags[p]
       THEN \E r \in {MsvcrtLockingAt(oslocks, p, filename[p], FALSE,
                                      hPos[p]),
                      [res |-> "EDEADLOCK", L |-> oslocks]} :
              /\ r.res # "block"
              /\ MsvcrtLockFrom(p, r, pr, frame[p])
       ELSE LET r == LockFileEx(oslocks, p, filename[p],
                                EX \in Win32ApiFlags(flags[p]), FALSE) IN
              /\ r.res = "ok"
              /\ Win32LockFrom(p, r, pr, frame[p])
  /\ UNCHANGED <<now, fileData, hOpen, hSerial, hFile, linked, hBuf, cfgVars, fh, retval,
                 rlockVars, semVars, ghostVars>>

\* Win32Locker.unlock from the position pos on: the result, the OS calls
\* made and the position after it, for the outcome w of UnlockFileEx
Win32UnlockFrom(file_obj, pos, w) ==
  LET pr == PrepareFile(file_obj, pos) IN
  [r |-> Win32UnlockResult(w),
   c |-> <<<<"UnlockFileEx", w.res>>>>,
   pos |-> restore_windows_file_pos(pr.pos, pr.original_pos),
   msg |-> IF Win32UnlockResult(w).res = "ok" THEN <<>> ELSE <<w.res>>]

\* MsvcrtLocker.unlock from the position pos on, for the outcome r of
\* msvcrt.locking(LK_UNLCK) and the outcome w of the UnlockFileEx of the
\* fallback: on the fallback path the position is restored before
\* Win32Locker.unlock prepares the file again, and not once more
MsvcrtUnlockFrom(file_obj, pos, r, w) ==
  LET pr == PrepareFile(file_obj, pos)
      back == restore_windows_file_pos(pr.pos, pr.original_pos)
      fb == Win32UnlockFrom(file_obj, back, w)
  IN
  IF r.res # "ok" /\ TakesFallback(r)
    THEN [r |-> MsvcrtUnlockResult(r, fb.r),
          c |-> <<<<"locking", r.res>>>> \o fb.c,
          pos |-> fb.pos,
          msg |-> IF fb.r.res = "ok" THEN <<>> ELSE <<r.res>> \o fb.msg]
    ELSE [r |-> MsvcrtUnlockResult(r, fb.r),
          c |-> <<<<"locking", r.res>>>>,
          pos |-> back,
          msg |-> IF r.res = "ok" THEN <<>> ELSE <<r.res>>]

\* the call: portalocker.unlock(fh) on nt
Nt_unlock(p) ==
  /\ pc[p] = "idle"
  /\ hOpen[p]
  /\ CallsMade(NumProcs) < MaxNtCalls
  /\ ncalls' = [ncalls EXCEPT ![p] = @ + 1]
  /\ rcall' = [rcall EXCEPT ![p] = "unlock"]
  /\ \E file_obj \in FileArguments :
     LET fr == [NoFrame EXCEPT !.pos0 = hPos[p]] IN
     IF LOCKER = "MsvcrtLocker"
       THEN \E r \in MsvcrtUnlockingOutcomes(oslocks, p,
                        PrepareFile(file_obj, hPos[p]).pos) :
            \E w \in UnlockFileExOutcomes(r.L, p) :
              LET u == MsvcrtUnlockFrom(file_obj, hPos[p], r, w) IN
              NtReturn(p, u.r, u.c, u.pos, [fr EXCEPT !.msg = u.msg])
       ELSE \E w \in UnlockFileExOutcomes(oslocks, p) :
              LET u == Win32UnlockFrom(file_obj, hPos[p], w) IN
              NtReturn(p, u.r, u.c, u.pos, [fr EXCEPT !.msg = u.msg])
  /\ UNCHANGED <<now, fileData, hOpen, hSerial, hFile, linked, hBuf, cfgVars, fh, retval,
                 acquire_count, rpc, rret, acquires, releases, semVars,
                 written>>

InitNt ==
  /\ InitWith({}, {"Win32Locker", "MsvcrtLocker"}, {<<"a">>},
              {LOCK_METHOD}, {0}, {1}, {DEFAULT_FAIL_WHEN_LOCKED})
  /\ sem = [p \in Users |-> NoSem]

NextNt ==
  \/ \E p \in Procs : Backend_open(p)
  \/ \E p \in Procs : Nt_seek(p)
  \/ \E p \in Procs : Nt_lock(p)
  \/ \E p \in Procs : Nt_blocked(p)
  \/ \E p \in Procs : Nt_unlock(p)

SpecNt == InitNt /\ [][NextNt]_vars

\* a call of lock() or unlock() of user p ends in this step
NtCallEnds(p) ==
  /\ pc'[p] = "idle"
  /\ \/ pc[p] = "blocked"
     \/ ncalls'[p] = ncalls[p] + 1

\* C27: when lock() or unlock() on a Windows backend returns or raises,
\* the handle is at the position it had when the call was made.
C27_PositionRestored ==
  [][\A p \in Procs :
       NtCallEnds(p) => hPos'[p] = frame'[p].pos0]_vars

\* an unlock through MsvcrtLocker that took the fallback to Win32Locker,
\* which failed too, has left the handle at the position 2 it had
C27_Witness ==
  \E p \in Procs :
    /\ LOCKER = "MsvcrtLocker" /\ rcall[p] = "unlock" /\ pc[p] = "idle"
    /\ Len(frame[p].oscalls) = 2
    /\ ret[p] = "LockException"
    /\ frame[p].pos0 = MaxPos /\ hPos[p] = MaxPos

\* the outcome of the OS call number n of the call of user p that ends
OsOutcome(p, n) == frame'[p].oscalls[n][2]

\* C28: Win32Locker raises AlreadyLocked when LockFileEx fails with a lock
\* violation, ignores a not-locked error of UnlockFileEx, and raises every
\* other OS error of LockFileEx and of UnlockFileEx as LockException.
C28_Win32ErrorsTranslated ==
  [][\A p \in Procs :
       (LOCKER = "Win32Locker" /\ NtCallEnds(p))
         => /\ Len(frame'[p].oscalls) = 1
            /\ ret'[p] =
                 CASE OsOutcome(p, 1) = "ok" -> "ok"
                   [] OsOutcome(p, 1) = "ERROR_LOCK_VIOLATION"
                        -> "AlreadyLocked"
                   [] OsOutcome(p, 1) = "ERROR_NOT_LOCKED" -> "ok"
                   [] OTHER -> "LockException"]_vars

\* C29: MsvcrtLocker.unlock calls UnlockFileEx exactly when msvcrt.locking
\* failed with errno 13; it returns when the legacy call or the fallback
\* succeeded (a not-locked error of the fallback ignored); when the
\* fallback failed too it raises one LockException that names both
\* errors; any other error of the legacy call is raised as LockException
\* that names it, no fallback made.  The OS unlock call that succeeded has
\* released the lock of the handle.
C29_FallbackOnlyOnPermissionDenied ==
  [][\A p \in Procs :
       (LOCKER = "MsvcrtLocker" /\ NtCallEnds(p) /\ rcall'[p] = "unlock")
         => LET c == frame'[p].oscalls IN
            /\ Len(c) \in {1, 2}
            /\ c[1][1] = "locking"
            /\ Len(c) = 2 <=> c[1][2] = "EACCES"
            /\ Len(c) = 2 => c[2][1] = "UnlockFileEx"
            /\ ret'[p] \in {"ok", "LockException"}
            /\ ret'[p] = "ok"
                 <=> \/ c[1][2] = "ok"
                     \/ Len(c) = 2 /\ c[2][2] \in {"ok", "ERROR_NOT_LOCKED"}
            /\ ret'[p] = "LockException"
                 => frame'[p].msg = [n \in 1..Len(c) |-> c[n][2]]
            /\ (c[1][2] = "ok" \/ (Len(c) = 2 /\ c[2][2] = "ok"))
                 => ~HoldsOSLock(p)']_vars

\* the unlock of a shared lock taken through MsvcrtLocker: the legacy
\* unlock failed with errno 13 and the fallback released the range lock
C29_Witness ==
  \E p \in Procs :
    /\ LOCKER = "MsvcrtLocker" /\ rcall[p] = "unlock" /\ pc[p] = "idle"
    /\ frame[p].oscalls = <<<<"locking", "EACCES">>, <<"UnlockFileEx", "ok">>>>
    /\ ret[p] = "ok" /\ ncalls[p] = 2
    /\ ~HoldsOSLock(p)

\* C35: under MsvcrtLocker, for both lock modes, an unlock that returns
\* after a successful lock on the same handle leaves no lock held through
\* that handle (so another handle can lock the file exclusively): a SHARED
\* lock is released by the fallback, an EXCLUSIVE one by the legacy unlock
\* over the same length.
C35_UnlockLeavesNoLock ==
  [][\A p \in Procs :
       (/\ LOCKER = "MsvcrtLocker"
        /\ NtCallEnds(p)
        /\ rcall'[p] = "unlock"
        /\ ret'[p] = "ok"
        /\ HoldsOSLock(p))
         => ~\E r \in oslocks' : r.h = p]_vars

(* ---- SpecPosix: the locker classes FlockLocker and LockfLocker ------- *)
LockerClasses == {"PosixLocker", "FlockLocker", "LockfLocker"}

\* the class attribute LOCKER of a locker class
ClassLOCKER(cls) ==
  CASE cls = "FlockLocker" -> "flock"
    [] cls = "LockfLocker" -> "lockf"
    [] OTHER -> "none"

\* PosixLocker._locker, which no class and no method sets
PosixLocker_locker_attr(cls) == None

\* the property PosixLocker.locker of an instance of cls: the module's
\* LOCKER while _locker is None
PosixLocker_locker(cls) ==
  IF PosixLocker_locker_attr(cls) = None THEN LOCKER
  ELSE PosixLocker_locker_attr(cls)

\* fcntl.lockf(fd, flags): a record lock of the process on the whole file,
\* refused while another process holds a record lock that conflicts; it
\* neither sees nor is seen by flock locks
FcntlLockf(L, h, f, fl) ==
  LET op == fl \ {NB} IN
  IF op = {EX} \/ op = {SH} THEN
    IF \E r \in L : /\ r.file = f /\ r.h # h /\ r.api = "lockf"
                    /\ (op = {EX} \/ r.excl)
      THEN [res |-> IF NB \in fl THEN "EAGAIN" ELSE "block", L |-> L]
      ELSE [res |-> "ok",
            L |-> {r \in L : ~(r.h = h /\ r.api = "lockf")}
                    \cup {Rec(h, f, "lockf", op = {EX})}]
  ELSE [res |-> "EINVAL", L |-> L]

\* fcntl.lockf(fd, LOCK_UN)
FcntlLockfUnlock(L, h) == {r \in L : ~(r.h = h /\ r.api = "lockf")}

\* fcntl.flock as a call that leaves the record locks alone
FcntlFlockOnly(L, h, f, fl) ==
  LET r == FcntlFlock({x \in L : x.api = "flock"}, h, f, fl) IN
  [res |-> r.res, L |-> r.L \cup {x \in L : x.api # "flock"}]

\* self.locker(fd, flags) inside PosixLocker.lock of an instance of cls
LockerCall(cls, L, h, f, fl) ==
  IF PosixLocker_locker(cls) = "lockf"
    THEN FcntlLockf(L, h, f, fl)
    ELSE FcntlFlockOnly(L, h, f, fl)

\* the flags the lockers are called with
PosixFlags == {{EX, NB}, {SH, NB}}

\* the call: cls().lock(fh, fl)
Posix_lock(p) ==
  /\ pc[p] = "idle"
  /\ hOpen[p]
  /\ CallsMade(NumProcs) < MaxBackendCalls
  /\ ncalls' = [ncalls EXCEPT ![p] = @ + 1]
  /\ \E cls \in LockerClasses \ {"PosixLocker"}, fl \in PosixFlags :
       LET r == LockerCall(cls, oslocks, p, filename[p], fl) IN
       /\ rcall' = [rcall EXCEPT ![p] = <<cls, "lock">>]
       /\ flags' = [flags EXCEPT ![p] = fl]
       /\ oslocks' = r.L
       /\ slots_full' = SeenFull(r.L)
       /\ ret' = [ret EXCEPT ![p] =
                    CASE r.res = "EAGAIN" -> "AlreadyLocked"
                      [] r.res = "EINVAL" -> "LockException"
                      [] OTHER -> r.res]
       /\ frame' = [frame EXCEPT ![p] =
                      [NoFrame EXCEPT !.oscalls =
                         <<<<PosixLocker_locker(cls), r.res>>>>]]
  /\ UNCHANGED <<now, fileData, hOpen, hSerial, hFile, linked, hBuf, hPos, LOCKER, filename,
                 mode, truncate, fail_when_locked, timeout, check_interval,
                 fh, pc, retval, acquire_count, rpc, rret, acquires, releases,
                 semVars, written>>

\* the call: cls().unlock(fh)
Posix_unlock(p) ==
  /\ pc[p] = "idle"
  /\ hOpen[p]
  /\ CallsMade(NumProcs) < MaxBackendCalls
  /\ ncalls' = [ncalls EXCEPT ![p] = @ + 1]
  /\ \E cls \in LockerClasses \ {"PosixLocker"} :
       /\ rcall' = [rcall EXCEPT ![p] = <<cls, "unlock">>]
       /\ oslocks' = IF PosixLocker_locker(cls) = "lockf"
                       THEN FcntlLockfUnlock(oslocks, p)
                       ELSE {r \in oslocks : ~(r.h = p /\ r.api = "flock")}
       /\ slots_full' = SeenFull(oslocks')
       /\ ret' = [ret EXCEPT ![p] = "ok"]
       /\ frame' = [frame EXCEPT ![p] =
                      [NoFrame EXCEPT !.oscalls =
                         <<<<PosixLocker_locker(cls), "ok">>>>]]
  /\ UNCHANGED <<now, fileData, hOpen, hSerial, hFile, linked, hBuf, hPos, cfgVars, fh, pc,
                 retval, acquire_count, rpc, rret, acquires, releases,
                 semVars, written>>

\* the module's LOCKER is fcntl.flock unless the program has set it to
\* fcntl.lockf
InitPosix ==
  /\ InitWith({}, {"flock", "lockf"}, {<<"a">>},
              {LOCK_METHOD}, {0}, {1}, {DEFAULT_FAIL_WHEN_LOCKED})
  /\ sem = [p \in Users |-> NoSem]

NextPosix ==
  \/ \E p \in Procs : Backend_open(p)
  \/ \E p \in Procs : Posix_lock(p)
  \/ \E p \in Procs : Posix_unlock(p)

SpecPosix == InitPosix /\ [][NextPosix]_vars

\* C30: a lock or unlock through FlockLocker calls fcntl.flock and one
\* through LockfLocker calls fcntl.lockf, whatever the module's LOCKER is;
\* a lock granted through LockfLocker is a record lock, one granted
\* through FlockLocker a flock lock.
C30_EachVariantOwnSyscall ==
  [][\A p \in Procs :
       ncalls'[p] = ncalls[p] + 1
         => /\ frame'[p].oscalls[1][1] = ClassLOCKER(rcall'[p][1])
            /\ (rcall'[p][2] = "lock" /\ ret'[p] = "ok")
                 => Rec(p, filename[p], ClassLOCKER(rcall'[p][1]),
                        EX \in flags'[p]) \in oslocks']_vars

(* SpecUnheld: a BoundedSemaphore whose directory may be missing -------- *)
SemDirectories == {"tmp", "missing"}

InitUnheld ==
  /\ InitOn(Procs, SlotFiles, {"flock"},
            {<<"a">>}, {LOCK_METHOD}, {MaxTime}, {MinSleep},
            {DEFAULT_FAIL_WHEN_LOCKED})
  /\ \A p \in Procs : filename[p] = get_filename(p - 1)
  /\ \E d \in SemDirectories :
       sem = [p \in Users |->
               IF p \in SemUsers
                 THEN [timeout |-> 1, check_interval |-> 1,
                       fail_when_locked |-> TRUE, lock |-> None,
                       directory |-> d]
                 ELSE NoSem]

SpecUnheld == InitUnheld /\ [][NextSlots]_vars

\* the last acquire of the semaphore of user p ended without a slot
EndedWithoutSlot(p) ==
  /\ spc[p] = "idle"
  /\ sret[p] \notin {"Lock", "AssertionError"}
  /\ ncalls[p] > 0
  /\ ~HoldsOSLock(p)

\* C32: after BoundedSemaphore.acquire ends without a held slot, by
\* returning None or by raising any error (the failure to open a slot
\* file included), the lock attribute of the instance is None, and the
\* lock attribute never refers to a Lock that holds no file while no call
\* of the instance is running.
C32_UnheldAfterFailure ==
  \A p \in SemUsers :
    /\ EndedWithoutSlot(p) => sem[p].lock = None
    /\ (spc[p] = "idle" /\ sem[p].lock # None) => HoldsOSLock(p)

(* ------------------------- TemporaryFileLock ------------------------- *)
\* Lock.release(self), up to the return of unlock(); on an instance whose
\* fh is not set it goes on to the isfile test at once
TemporaryFileLock_release(p) ==
  /\ pc[p] = "idle"
  /\ IF fh[p] # None
       THEN /\ oslocks' = unlock(oslocks, p).L
            /\ slots_full' = SeenFull(unlock(oslocks, p).L)
            /\ pc' = [pc EXCEPT ![p] = "temp_closing"]
            /\ UNCHANGED <<fileData, hOpen, hSerial, hFile, linked, hBuf,
                           hPos>>
       ELSE /\ pc' = [pc EXCEPT ![p] = "isfile"]
            /\ UNCHANGED osVars
  /\ UNCHANGED <<now, cfgVars, fh, frame, ret, retval, rlockVars, semVars,
                 ghostVars>>

\* ... self.fh.close(); self.fh = None: Lock.release returns
TemporaryFileLock_release_close(p) ==
  /\ pc[p] = "temp_closing"
  /\ CloseOS(p, oslocks)
  /\ fh' = [fh EXCEPT ![p] = None]
  /\ pc' = [pc EXCEPT ![p] = "isfile"]
  /\ UNCHANGED <<now, cfgVars, frame, ret, retval, rlockVars, semVars,
                 ghostVars>>

\* if os.path.isfile(self.filename): ...
TemporaryFileLock_isfile(p) ==
  /\ pc[p] = "isfile"
  /\ IF linked[filename[p]].exists
       THEN /\ pc' = [pc EXCEPT ![p] = "unlink"]
            /\ UNCHANGED <<frame, ret>>
       ELSE Return(p, "ok")
  /\ UNCHANGED <<now, osVars, cfgVars, fh, retval, rlockVars, semVars,
                 ghostVars>>

\* some handle is open on the file that the name f names
OpenOnPath(f) ==
  \E q \in Users : hOpen[q] /\ filename[q] = f /\ OnDisk(q)

\* os.unlink(self.filename): the name goes, the file stays for the handles
\* that are open on it, with their locks.  Windows refuses to delete a
\* file that a handle opened by open() is open on
TemporaryFileLock_unlink(p) ==
  /\ pc[p] = "unlink"
  /\ LET f == filename[p] IN
       IF ~linked[f].exists
         THEN /\ Return(p, "FileNotFoundError")
              /\ UNCHANGED <<linked, fileData>>
       ELSE IF LOCKER # "flock" /\ OpenOnPath(f)
         THEN /\ Return(p, "PermissionError")
              /\ UNCHANGED <<linked, fileData>>
         ELSE /\ linked' = [linked EXCEPT ![f].exists = FALSE]
              /\ fileData' = [fileData EXCEPT ![f] = <<>>]
              /\ Return(p, "ok")
  /\ UNCHANGED <<now, oslocks, slots_full, hOpen, hSerial, hFile, hBuf,
                 hPos, cfgVars, fh, retval, rlockVars, semVars, ghostVars>>

\* TemporaryFileLock(filename) in NumProcs processes: mode 'w',
\* fail_when_locked=True
InitTemp ==
  /\ InitOn(Procs, {TempFile}, {"flock", "Win32Locker"}, {<<"w">>},
            {LOCK_METHOD}, {0, MaxTime}, {MinSleep}, {TRUE})
  /\ sem = [p \in Users |-> NoSem]

NextTemp ==
  \/ \E p \in Procs : Lock_acquire(p)
  \/ \E p \in Procs : Lock_try(p)
  \/ \E p \in Procs : Lock_gen(p)
  \/ \E p \in Procs : Lock_sleep(p)
  \/ \E p \in Procs : Lock_prepare(p)
  \/ \E p \in Procs : TemporaryFileLock_release(p)
  \/ \E p \in Procs : TemporaryFileLock_release_close(p)
  \/ \E p \in Procs : TemporaryFileLock_isfile(p)
  \/ \E p \in Procs : TemporaryFileLock_unlink(p)
  \/ Tick

SpecTemp == InitTemp /\ [][NextTemp]_vars

\* the TemporaryFileLock of user p is held: fh is set and the instance is
\* not inside release, past its backend unlock
TempHeld(p) == fh[p] # None /\ pc[p] # "temp_closing"

\* C34: of the TemporaryFileLock instances on one filename, at most one is
\* held at any time, although release deletes the lock file path after
\* unlocking, also on an instance that is not held.
C34_AtMostOneHeld ==
  \A p, q \in Procs : (p # q /\ TempHeld(p)) => ~TempHeld(q)
=============================================================================
